---- MODULE Spec2Model ----
(***************************************************************************)
(* Script generator of the Reddit-to-video pipeline: template catalog,     *)
(* narration builder, duration calculator, segment assembler, subtitle     *)
(* splitter and JSON exporter (script_generator.py, script_templates.py,   *)
(* script_config.py).                                                      *)
(*                                                                         *)
(* Text is a sequence of one-character strings.  A time is a binary        *)
(* floating-point number: an integer count of ticks of 2^-TickBits second  *)
(* whose significand has MantBits bits, every arithmetic result being      *)
(* rounded to the nearest such number (ties to even), as Python's float    *)
(* does with 53 bits.                                                      *)
(***************************************************************************)
EXTENDS Integers, Sequences, FiniteSets, TLC

\* ------------------------------------------------------------------ bounds
MantBits == 8
TickBits == 16
RngMod == 4
MaxClock == 1
\* timedelta keeps whole units of 2^-TimedeltaBits second: a unit coarser than
\* the spacing of the floats, as the microsecond is for 53-bit floats
TimedeltaBits == 3

\* the number of generate_from_script calls on the audio files of one disk
MaxRuns == 2

\* ------------------------------------------------------------------- text
Chars(s) == [i \in 1..Len(s) |-> SubSeq(s, i, i)]

\* sep.join(parts); the parts lo..hi are joined half by half
RECURSIVE JoinRange(_, _, _, _)
JoinRange(sep, parts, lo, hi) ==
  IF lo = hi THEN parts[lo]
  ELSE LET mid == (lo + hi) \div 2
       IN JoinRange(sep, parts, lo, mid) \o sep \o JoinRange(sep, parts, mid + 1, hi)

Join(sep, parts) ==
  IF parts = <<>> THEN <<>> ELSE JoinRange(sep, parts, 1, Len(parts))

MinOf(S) == CHOOSE x \in S : \A y \in S : x <= y

\* the maximal runs of characters of s outside seps, in order
FieldStarts(s, seps) ==
  {i \in 1..Len(s) : s[i] \notin seps /\ (i = 1 \/ s[i - 1] \in seps)}

FieldEnd(s, seps, i) ==
  CHOOSE e \in i..Len(s) :
    /\ e = Len(s) \/ s[e + 1] \in seps
    /\ \A j \in i..(e - 1) : s[j + 1] \notin seps

\* the fields that start at a position of lo..hi, found half by half
RECURSIVE FieldsRange(_, _, _, _)
FieldsRange(s, seps, lo, hi) ==
  IF lo > hi THEN <<>>
  ELSE IF lo = hi
  THEN IF s[lo] \notin seps /\ (lo = 1 \/ s[lo - 1] \in seps)
       THEN << SubSeq(s, lo, FieldEnd(s, seps, lo)) >> ELSE <<>>
  ELSE LET mid == (lo + hi) \div 2
       IN FieldsRange(s, seps, lo, mid) \o FieldsRange(s, seps, mid + 1, hi)

Fields(s, seps) == FieldsRange(s, seps, 1, Len(s))

Whitespace == {" ", "\n"}

\* str.split()
Split(s) == Fields(s, Whitespace)

HasChar(s, c) == \E i \in 1..Len(s) : s[i] = c

IndexOf(s, c) == MinOf({i \in 1..Len(s) : s[i] = c})

\* str.split(":")[0]: the text before the first colon
BeforeColon(s) ==
  IF HasChar(s, ":") THEN SubSeq(s, 1, IndexOf(s, ":") - 1) ELSE s

\* str.strip()
RECURSIVE LStrip(_)
LStrip(s) == IF s # <<>> /\ Head(s) \in Whitespace THEN LStrip(Tail(s)) ELSE s

RECURSIVE RStrip(_)
RStrip(s) ==
  IF s # <<>> /\ s[Len(s)] \in Whitespace THEN RStrip(SubSeq(s, 1, Len(s) - 1)) ELSE s

Strip(s) == RStrip(LStrip(s))

Digit(d) == SubSeq("0123456789", d + 1, d + 1)

\* str(n) for an integer
RECURSIVE NatToChars(_)
NatToChars(n) ==
  IF n < 10 THEN <<Digit(n)>> ELSE Append(NatToChars(n \div 10), Digit(n % 10))

IntToChars(n) == IF n < 0 THEN <<"-">> \o NatToChars(0 - n) ELSE NatToChars(n)

\* f"{n:,}": decimal digits in groups of three separated by commas
RECURSIVE NatToCommaChars(_)
NatToCommaChars(n) ==
  IF n < 1000 THEN NatToChars(n)
  ELSE LET r == n % 1000
       IN NatToCommaChars(n \div 1000)
            \o <<",", Digit(r \div 100), Digit((r \div 10) % 10), Digit(r % 10)>>

IntToCommaChars(n) ==
  IF n < 0 THEN <<"-">> \o NatToCommaChars(0 - n) ELSE NatToCommaChars(n)

\* template.format(subreddit=...): every {subreddit} field is replaced
RECURSIVE Format(_, _)
Format(t, subreddit) ==
  IF ~HasChar(t, "{") THEN t
  ELSE LET open == IndexOf(t, "{")
           rest == SubSeq(t, open + 1, Len(t))
           close == IndexOf(rest, "}")
       IN SubSeq(t, 1, open - 1) \o subreddit
            \o Format(SubSeq(rest, close + 1, Len(rest)), subreddit)

\* ------------------------------------------------------------------ float
RECURSIVE Pow2(_)
Pow2(n) == IF n = 0 THEN 1 ELSE 2 * Pow2(n - 1)

TicksPerSec == Pow2(TickBits)

\* the spacing of the floating-point numbers around v >= 0
RECURSIVE Ulp(_)
Ulp(v) == IF v < Pow2(MantBits) THEN 1 ELSE 2 * Ulp(v \div 2)

RoundHalfEven(n, d) ==
  LET f == n \div d
      r == n % d
  IN IF 2 * r < d THEN f
     ELSE IF 2 * r > d THEN f + 1
     ELSE IF f % 2 = 0 THEN f ELSE f + 1

\* the float nearest to the non-negative rational n/d (in ticks)
FRound(n, d) ==
  LET u == Ulp(n \div d) IN u * RoundHalfEven(n, d * u)

FAdd(a, b) == FRound(a + b, 1)
FMul(a, k) == FRound(a * k, 1)
FDiv(a, k) == FRound(a, k)
\* int / int true division, the result in ticks
IntDiv(a, b) == FRound(a * TicksPerSec, b)
Sec(n) == n * TicksPerSec
Max(a, b) == IF a >= b THEN a ELSE b

\* --------------------------------------------------------- script_config
\* COMMENT_SELECTION, with the default of _generate_comments_narration
COMMENT_SELECTION_FORMATS == {"short", "medium", "long"}
COMMENT_SELECTION(format_type) ==
  IF format_type = "short" THEN [max_comments |-> 1, min_score |-> 100]
  ELSE IF format_type = "medium" THEN [max_comments |-> 3, min_score |-> 50]
  ELSE IF format_type = "long" THEN [max_comments |-> 10, min_score |-> 10]
  ELSE [max_comments |-> 3, min_score |-> 10]

INTRO_CASUAL ==
  << Chars("Check out this post from Reddit"),
     Chars("Here's an interesting story from r/{subreddit}"),
     Chars("You won't believe what happened on Reddit"),
     Chars("This Reddit post is wild"),
     Chars("Let me tell you about this Reddit story") >>

INTRO_FORMAL ==
  << Chars("Today we're looking at a post from r/{subreddit}"),
     Chars("This is a story that was shared on Reddit"),
     Chars("A user on Reddit shared this interesting post") >>

INTRO_DRAMATIC ==
  << Chars("This is the story that shocked Reddit"),
     Chars("What you're about to hear will blow your mind"),
     Chars("The internet went crazy over this post") >>

INTRO_COMEDIC ==
  << Chars("Reddit never disappoints, and this post proves it"),
     Chars("Hold onto your hats for this one folks"),
     Chars("The internet is a weird place, and here's proof") >>

\* NARRATION_TEMPLATES["intro"].get(style, [])
NARRATION_TEMPLATES_intro(style) ==
  IF style = "casual" THEN INTRO_CASUAL
  ELSE IF style = "formal" THEN INTRO_FORMAL
  ELSE IF style = "dramatic" THEN INTRO_DRAMATIC
  ELSE IF style = "comedic" THEN INTRO_COMEDIC
  ELSE <<>>

TRANSITION_TO_COMMENTS ==
  << Chars("Let's see what people had to say"),
     Chars("The comments section did not disappoint"),
     Chars("Here's what Redditors thought"),
     Chars("The best part is in the comments") >>

ENGAGEMENT_PROMPTS ==
  << Chars("What do you think about this?"),
     Chars("Let me know in the comments"),
     Chars("Would you do the same thing?"),
     Chars("This is crazy, right?"),
     Chars("Drop your thoughts below") >>

OUTROS ==
  << Chars("Thanks for watching! Hit that subscribe button for more Reddit content"),
     Chars("Don't forget to like and subscribe"),
     Chars("Follow for more stories from Reddit"),
     Chars("See you in the next one"),
     Chars("That's it for today, catch you later") >>

\* ------------------------------------------------------ script_templates
\* a segment spec keeps the keys the generator reads
\* mutant: the comment segment of the short template is named like its body
ShortFormTemplate_two_bodies ==
  << [name |-> "hook", duration |-> 3, required |-> TRUE,
      content_type |-> "title", visual |-> "title_screen"],
     [name |-> "body", duration |-> 15, required |-> TRUE,
      content_type |-> "post_body", visual |-> "text_overlay"],
     [name |-> "body", duration |-> 8, required |-> FALSE,
      content_type |-> "comments", visual |-> "comment_highlight"],
     [name |-> "outro", duration |-> 3, required |-> TRUE,
      content_type |-> "call_to_action", visual |-> "cta_screen"] >>

ShortFormTemplate ==
  << [name |-> "hook", duration |-> 3, required |-> TRUE,
      content_type |-> "title", visual |-> "title_screen"],
     [name |-> "body", duration |-> 15, required |-> TRUE,
      content_type |-> "post_body", visual |-> "text_overlay"],
     [name |-> "top_comment", duration |-> 8, required |-> FALSE,
      content_type |-> "comments", visual |-> "comment_highlight"],
     [name |-> "outro", duration |-> 3, required |-> TRUE,
      content_type |-> "call_to_action", visual |-> "cta_screen"] >>

\* mutant: the comments spec placed before the body spec
MediumFormTemplate_comments_first ==
  << [name |-> "intro", duration |-> 5, required |-> TRUE,
      content_type |-> "intro", visual |-> "animated_intro"],
     [name |-> "title", duration |-> 6, required |-> TRUE,
      content_type |-> "title", visual |-> "title_screen"],
     [name |-> "context", duration |-> 3, required |-> FALSE,
      content_type |-> "metadata", visual |-> "stats_display"],
     [name |-> "comments", duration |-> 15, required |-> TRUE,
      content_type |-> "comments", visual |-> "comment_section"],
     [name |-> "body", duration |-> 30, required |-> TRUE,
      content_type |-> "post_body", visual |-> "text_overlay"],
     [name |-> "engagement", duration |-> 3, required |-> FALSE,
      content_type |-> "engagement", visual |-> "engagement_prompt"],
     [name |-> "outro", duration |-> 5, required |-> TRUE,
      content_type |-> "call_to_action", visual |-> "outro_screen"] >>

MediumFormTemplate ==
  << [name |-> "intro", duration |-> 5, required |-> TRUE,
      content_type |-> "intro", visual |-> "animated_intro"],
     [name |-> "title", duration |-> 6, required |-> TRUE,
      content_type |-> "title", visual |-> "title_screen"],
     [name |-> "context", duration |-> 3, required |-> FALSE,
      content_type |-> "metadata", visual |-> "stats_display"],
     [name |-> "body", duration |-> 30, required |-> TRUE,
      content_type |-> "post_body", visual |-> "text_overlay"],
     [name |-> "comments", duration |-> 15, required |-> TRUE,
      content_type |-> "comments", visual |-> "comment_section"],
     [name |-> "engagement", duration |-> 3, required |-> FALSE,
      content_type |-> "engagement", visual |-> "engagement_prompt"],
     [name |-> "outro", duration |-> 5, required |-> TRUE,
      content_type |-> "call_to_action", visual |-> "outro_screen"] >>

LongFormTemplate ==
  << [name |-> "cold_open", duration |-> 8, required |-> FALSE,
      content_type |-> "teaser", visual |-> "dramatic_opener"],
     [name |-> "intro", duration |-> 8, required |-> TRUE,
      content_type |-> "intro", visual |-> "branded_intro"],
     [name |-> "title", duration |-> 8, required |-> TRUE,
      content_type |-> "title", visual |-> "title_animation"],
     [name |-> "context", duration |-> 10, required |-> TRUE,
      content_type |-> "metadata", visual |-> "context_graphics"],
     [name |-> "body_part_1", duration |-> 45, required |-> TRUE,
      content_type |-> "post_body", visual |-> "scrolling_text"],
     [name |-> "mid_engagement", duration |-> 8, required |-> TRUE,
      content_type |-> "engagement", visual |-> "like_button_animation"],
     [name |-> "body_part_2", duration |-> 45, required |-> FALSE,
      content_type |-> "post_continuation", visual |-> "scrolling_text"],
     [name |-> "comments", duration |-> 40, required |-> TRUE,
      content_type |-> "comments", visual |-> "comment_thread"],
     [name |-> "engagement", duration |-> 8, required |-> TRUE,
      content_type |-> "engagement", visual |-> "poll_or_question"],
     [name |-> "outro", duration |-> 10, required |-> TRUE,
      content_type |-> "outro", visual |-> "end_screen"] >>

StoryTimeTemplate ==
  << [name |-> "hook", duration |-> 5, required |-> TRUE,
      content_type |-> "title", visual |-> "dramatic_text"],
     [name |-> "setup", duration |-> 15, required |-> TRUE,
      content_type |-> "context", visual |-> "background_visuals"],
     [name |-> "story", duration |-> 60, required |-> TRUE,
      content_type |-> "post_body", visual |-> "story_visuals"],
     [name |-> "reactions", duration |-> 30, required |-> TRUE,
      content_type |-> "comments", visual |-> "comment_reactions"],
     [name |-> "conclusion", duration |-> 10, required |-> TRUE,
      content_type |-> "outro", visual |-> "conclusion_screen"] >>

CompilationTemplate ==
  << [name |-> "intro", duration |-> 10, required |-> TRUE,
      content_type |-> "intro", visual |-> "montage"],
     [name |-> "post_segment", duration |-> 30, required |-> TRUE,
      content_type |-> "post_block", visual |-> "post_display"],
     [name |-> "outro", duration |-> 10, required |-> TRUE,
      content_type |-> "outro", visual |-> "end_montage"] >>

TEMPLATES == {"short", "medium", "long", "story", "compilation"}

\* TEMPLATES[template_name]().segments
TemplateSegments(template_name) ==
  IF template_name = "short" THEN ShortFormTemplate
  ELSE IF template_name = "medium" THEN MediumFormTemplate
  ELSE IF template_name = "long" THEN LongFormTemplate
  ELSE IF template_name = "story" THEN StoryTimeTemplate
  ELSE CompilationTemplate


\* -------------------------------------------------------- random and clock
\* random.choice(seq): the element picked in generator state r, and the
\* state the generator is left in
NextRng(r) == (5 * r + 3) % RngMod
Choice(seq, r) == seq[(r % Len(seq)) + 1]

\* ----------------------------------------------------------- post records
\* dict.get(key, default)
Get(d, key, default) == IF key \in DOMAIN d THEN d[key] ELSE default

\* --------------------------------------------------------- ScriptGenerator
REQUIRED_FIELDS == <<"title", "body", "subreddit", "author">>

\* mutant: "author" left out of required_fields
MissingFields_without_author(post_data) ==
  SelectSeq(<<"title", "body", "subreddit">>,
            LAMBDA field : field \notin DOMAIN post_data)

\* the fields _validate_post_data reports as missing
MissingFields(post_data) ==
  SelectSeq(REQUIRED_FIELDS, LAMBDA field : field \notin DOMAIN post_data)

\* len(text.split()) if text else 0
_count_words(text) == IF text # <<>> THEN Cardinality(FieldStarts(text, Whitespace)) ELSE 0

\* mutant: the pause is not added to the calculated duration
_calculate_duration_no_pause(opts, text, base_duration) ==
  IF text = <<>> THEN base_duration
  ELSE Max(base_duration,
           FMul(IntDiv(_count_words(text), opts.words_per_minute), 60))

\* mutant: the calculated duration returned without the max against the base
_calculate_duration_no_max(opts, text, base_duration) ==
  IF text = <<>> THEN base_duration
  ELSE FAdd(FMul(IntDiv(_count_words(text), opts.words_per_minute), 60),
            opts.pause_duration)

_calculate_duration(opts, text, base_duration) ==
  IF text = <<>> THEN base_duration
  ELSE LET word_count == _count_words(text)
           calculated_duration ==
             FAdd(FMul(IntDiv(word_count, opts.words_per_minute), 60),
                  opts.pause_duration)
       IN Max(base_duration, calculated_duration)

\* every narration builder returns the text and the random generator's state
_generate_intro_narration(post_data, style, r) ==
  LET found == NARRATION_TEMPLATES_intro(style)
      templates ==
        IF found = <<>>
        THEN << Chars("Here's an interesting post from r/{subreddit}") >>
        ELSE found
  IN [text |-> Format(Choice(templates, r), post_data["subreddit"]),
      rng |-> NextRng(r)]

\* mutant: the comedic prefix is missing
_generate_title_narration_no_comedic(post_data, style, r) ==
  LET title == post_data["title"]
  IN [text |-> IF style = "dramatic" THEN Chars("Listen to this: ") \o title
               ELSE title,
      rng |-> r]

_generate_title_narration(post_data, style, r) ==
  LET title == post_data["title"]
  IN [text |-> IF style = "dramatic" THEN Chars("Listen to this: ") \o title
               ELSE IF style = "comedic" THEN Chars("Get this: ") \o title
               ELSE title,
      rng |-> r]

_generate_context_narration(opts, post_data, format_type, r) ==
  LET p1 == IF opts.show_usernames
            THEN << Chars("Posted by u/") \o post_data["author"] >> ELSE <<>>
      p2 == IF opts.show_scores /\ Get(post_data, "score", 0) # 0
            THEN << Chars("with ") \o IntToCommaChars(post_data["score"])
                      \o Chars(" upvotes") >>
            ELSE <<>>
      p3 == IF format_type = "long" /\ Len(Get(post_data, "awards", <<>>)) > 0
            THEN << Chars("and ") \o IntToChars(Len(post_data["awards"]))
                      \o Chars(" awards") >>
            ELSE <<>>
      context_parts == p1 \o p2 \o p3
  IN [text |-> IF context_parts # <<>>
               THEN Join(Chars(". "), context_parts) \o Chars(".") ELSE <<>>,
      rng |-> r]

\* mutant: the word budget of the long format for every format
BodyMaxWords_always_long(format_type) == 500

BodyMaxWords(format_type) ==
  IF format_type = "short" THEN 50
  ELSE IF format_type = "medium" THEN 150
  ELSE 500

_generate_body_narration(post_data, format_type, r) ==
  LET body == Get(post_data, "body", <<>>)
      max_words == BodyMaxWords(format_type)
      words == Split(body)
  IN [text |-> IF body = <<>> THEN <<>>
               ELSE IF Len(words) > max_words
               THEN Join(Chars(" "), SubSeq(words, 1, max_words)) \o Chars("...")
               ELSE body,
      rng |-> r]

\* mutant: the first max_comments comments are taken, then filtered by score
RECURSIVE SelectComments_first_then_filter(_, _, _)
SelectComments_first_then_filter(comments, criteria, selected) ==
  IF comments = <<>> \/ criteria.max_comments = 0 THEN selected
  ELSE SelectComments_first_then_filter(Tail(comments),
         [criteria EXCEPT !.max_comments = @ - 1],
         IF Get(Head(comments), "score", 0) >= criteria.min_score
         THEN Append(selected, Head(comments)) ELSE selected)

\* the selection loop of _generate_comments_narration
RECURSIVE SelectComments(_, _, _)
SelectComments(comments, criteria, selected) ==
  IF comments = <<>> \/ Len(selected) >= criteria.max_comments THEN selected
  ELSE SelectComments(Tail(comments), criteria,
         IF Get(Head(comments), "score", 0) >= criteria.min_score
         THEN Append(selected, Head(comments)) ELSE selected)

\* mutant: every format cuts the body of a comment at 100 characters
CommentText_cut_at_100(opts, comment, format_type) ==
  LET author == Get(comment, "author", Chars("someone"))
      body0 == Get(comment, "body", <<>>)
      score == Get(comment, "score", 0)
      max_length == 100
      body == IF Len(body0) > max_length
              THEN SubSeq(body0, 1, max_length) \o Chars("...") ELSE body0
      said == IF opts.show_usernames
              THEN Chars("u/") \o author \o Chars(" said: ") \o body
              ELSE Chars("One person said: ") \o body
  IN IF opts.show_scores /\ score > 50
     THEN said \o Chars(". This got ") \o IntToChars(score) \o Chars(" upvotes")
     ELSE said

CommentText(opts, comment, format_type) ==
  LET author == Get(comment, "author", Chars("someone"))
      body0 == Get(comment, "body", <<>>)
      score == Get(comment, "score", 0)
      max_length == IF format_type = "long" THEN 200 ELSE 100
      body == IF Len(body0) > max_length
              THEN SubSeq(body0, 1, max_length) \o Chars("...") ELSE body0
      said == IF opts.show_usernames
              THEN Chars("u/") \o author \o Chars(" said: ") \o body
              ELSE Chars("One person said: ") \o body
  IN IF opts.show_scores /\ score > 50
     THEN said \o Chars(". This got ") \o IntToChars(score) \o Chars(" upvotes")
     ELSE said

\* mutant: the two early returns for "no comments" are missing
_generate_comments_narration_no_early_return(opts, post_data, format_type, r) ==
  LET comments == Get(post_data, "comments", <<>>)
      criteria == COMMENT_SELECTION(format_type)
      selected == SelectComments(comments, criteria, <<>>)
      narration_parts ==
        << Choice(TRANSITION_TO_COMMENTS, r) >>
          \o [i \in 1..Len(selected) |-> CommentText(opts, selected[i], format_type)]
  IN [text |-> Join(Chars(". "), narration_parts) \o Chars("."),
      rng |-> NextRng(r)]

_generate_comments_narration(opts, post_data, format_type, r) ==
  LET comments == Get(post_data, "comments", <<>>)
      criteria == COMMENT_SELECTION(format_type)
      selected == SelectComments(comments, criteria, <<>>)
      transitions == TRANSITION_TO_COMMENTS
      narration_parts ==
        << Choice(transitions, r) >>
          \o [i \in 1..Len(selected) |-> CommentText(opts, selected[i], format_type)]
  IN IF comments = <<>> \/ selected = <<>> THEN [text |-> <<>>, rng |-> r]
     ELSE [text |-> Join(Chars(". "), narration_parts) \o Chars("."),
           rng |-> NextRng(r)]

_generate_engagement_narration(style, r) ==
  [text |-> Choice(ENGAGEMENT_PROMPTS, r), rng |-> NextRng(r)]

_generate_outro_narration(style, r) ==
  [text |-> Choice(OUTROS, r), rng |-> NextRng(r)]

_generate_teaser_narration(post_data, style, r) ==
  LET title == post_data["title"]
      words == Split(title)
      teaser == IF HasChar(title, ":") THEN BeforeColon(title)
                ELSE Join(Chars(" "),
                          SubSeq(words, 1, IF Len(words) < 10 THEN Len(words) ELSE 10))
  IN [text |-> IF style = "dramatic"
               THEN Chars("You need to hear this story about ") \o teaser
               ELSE teaser,
      rng |-> r]

_generate_narration(opts, content_type, post_data, format_type, narration_style, r) ==
  IF content_type = "intro"
    THEN _generate_intro_narration(post_data, narration_style, r)
  ELSE IF content_type = "title"
    THEN _generate_title_narration(post_data, narration_style, r)
  ELSE IF content_type = "metadata" \/ content_type = "context"
    THEN _generate_context_narration(opts, post_data, format_type, r)
  ELSE IF content_type = "post_body"
    THEN _generate_body_narration(post_data, format_type, r)
  ELSE IF content_type = "comments"
    THEN _generate_comments_narration(opts, post_data, format_type, r)
  ELSE IF content_type = "engagement"
    THEN _generate_engagement_narration(narration_style, r)
  ELSE IF content_type \in {"call_to_action", "outro"}
    THEN _generate_outro_narration(narration_style, r)
  ELSE IF content_type = "teaser"
    THEN _generate_teaser_narration(post_data, narration_style, r)
  ELSE [text |-> <<>>, rng |-> r]

\* _generate_visual_cues: the cue type and its elements
_generate_visual_cues(visual_type, content_type, post_data) ==
  [type |-> visual_type,
   elements |->
     IF visual_type = "title_screen"
     THEN << [type |-> "text", content |-> post_data["title"],
              position |-> "center"],
             [type |-> "label", content |-> Chars("r/") \o post_data["subreddit"],
              position |-> "top"] >>
     ELSE IF visual_type = "text_overlay"
     THEN << [type |-> "text", content |-> Get(post_data, "body", <<>>),
              scroll |-> TRUE] >>
     ELSE IF visual_type = "comment_section"
     THEN LET all == Get(post_data, "comments", <<>>)
              comments == SubSeq(all, 1, IF Len(all) < 3 THEN Len(all) ELSE 3)
          IN [i \in 1..Len(comments) |->
                [type |-> "comment",
                 author |-> Get(comments[i], "author", <<>>),
                 content |-> Get(comments[i], "body", <<>>),
                 score |-> Get(comments[i], "score", 0)]]
     ELSE IF visual_type = "stats_display"
     THEN << [type |-> "stat", label |-> "Upvotes",
              value |-> Get(post_data, "score", 0)],
             [type |-> "stat", label |-> "Comments",
              value |-> Get(post_data, "num_comments", 0)] >>
     ELSE <<>>]

\* mutant: end_time is the duration, the start_time is not added
_generate_segment_end_is_duration(opts, segment_template, post_data, start_time, format_type, narration_style, r) ==
  LET n == _generate_narration(opts, segment_template.content_type, post_data,
                               format_type, narration_style, r)
      narration == n.text
      duration == _calculate_duration(opts, narration, Sec(segment_template.duration))
  IN IF narration = <<>> /\ ~segment_template.required
     THEN [segment |-> <<>>, rng |-> n.rng]
     ELSE [segment |->
             << [name |-> segment_template.name,
                 type |-> segment_template.content_type,
                 start_time |-> start_time,
                 end_time |-> duration,
                 duration |-> duration,
                 narration |-> narration,
                 visual |-> _generate_visual_cues(segment_template.visual,
                              segment_template.content_type, post_data),
                 required |-> segment_template.required] >>,
           rng |-> n.rng]

\* mutant: every segment with empty narration is skipped, required or not
_generate_segment_skip_all_empty(opts, segment_template, post_data, start_time, format_type, narration_style, r) ==
  LET n == _generate_narration(opts, segment_template.content_type, post_data,
                               format_type, narration_style, r)
      narration == n.text
      duration == _calculate_duration(opts, narration, Sec(segment_template.duration))
  IN IF narration = <<>>
     THEN [segment |-> <<>>, rng |-> n.rng]
     ELSE [segment |->
             << [name |-> segment_template.name,
                 type |-> segment_template.content_type,
                 start_time |-> start_time,
                 end_time |-> FAdd(start_time, duration),
                 duration |-> duration,
                 narration |-> narration,
                 visual |-> _generate_visual_cues(segment_template.visual,
                              segment_template.content_type, post_data),
                 required |-> segment_template.required] >>,
           rng |-> n.rng]

\* _generate_segment: the segment (or none, for a skipped optional segment)
\* and the random generator's state
_generate_segment(opts, segment_template, post_data, start_time, format_type, narration_style, r) ==
  LET n == _generate_narration(opts, segment_template.content_type, post_data,
                               format_type, narration_style, r)
      narration == n.text
      duration == _calculate_duration(opts, narration, Sec(segment_template.duration))
  IN IF narration = <<>> /\ ~segment_template.required
     THEN [segment |-> <<>>, rng |-> n.rng]
     ELSE [segment |->
             << [name |-> segment_template.name,
                 type |-> segment_template.content_type,
                 start_time |-> start_time,
                 end_time |-> FAdd(start_time, duration),
                 duration |-> duration,
                 narration |-> narration,
                 visual |-> _generate_visual_cues(segment_template.visual,
                              segment_template.content_type, post_data),
                 required |-> segment_template.required] >>,
           rng |-> n.rng]

\* mutant: a missing post id is replaced by one made from the clock
_generate_metadata_clock_id(post_data, format_type, template_name, timestamp) ==
  [post_id |-> Get(post_data, "id", Chars("post_") \o IntToChars(timestamp)),
   title |-> post_data["title"],
   subreddit |-> post_data["subreddit"],
   author |-> post_data["author"],
   post_url |-> Get(post_data, "url", <<>>),
   format_type |-> format_type,
   template |-> template_name,
   generated_at |-> timestamp,
   post_score |-> Get(post_data, "score", 0),
   num_comments |-> Get(post_data, "num_comments", 0)]

_generate_metadata(post_data, format_type, template_name, timestamp) ==
  [post_id |-> Get(post_data, "id", Chars("unknown")),
   title |-> post_data["title"],
   subreddit |-> post_data["subreddit"],
   author |-> post_data["author"],
   post_url |-> Get(post_data, "url", <<>>),
   format_type |-> format_type,
   template |-> template_name,
   generated_at |-> timestamp,
   post_score |-> Get(post_data, "score", 0),
   num_comments |-> Get(post_data, "num_comments", 0)]

\* ------------------------------------------------------------- subtitles
\* mutant: the narration is split on the full stop only
Sentences_on_full_stop(narration) ==
  LET parts == Fields(narration, {"."})
      stripped == [i \in 1..Len(parts) |-> Strip(parts[i])]
  IN SelectSeq(stripped, LAMBDA x : x # <<>>)

\* [s.strip() for s in re.split(r"[.!?]+", narration) if s.strip()]
Sentences(narration) ==
  LET parts == Fields(narration, {".", "!", "?"})
      stripped == [i \in 1..Len(parts) |-> Strip(parts[i])]
  IN SelectSeq(stripped, LAMBDA x : x # <<>>)

\* mutant: the word that does not fit on the current line is not carried to
\* the next line
RECURSIVE WrapWords_drops_overflow(_, _, _, _, _)
WrapWords_drops_overflow(words, lines, current_line, current_length, max_chars_per_line) ==
  IF words = <<>>
  THEN IF current_line # <<>>
       THEN Append(lines, Join(Chars(" "), current_line)) ELSE lines
  ELSE LET word == Head(words)
       IN IF current_length + Len(word) + 1 > max_chars_per_line
          THEN WrapWords_drops_overflow(Tail(words),
                         Append(lines, Join(Chars(" "), current_line)),
                         <<>>, 0, max_chars_per_line)
          ELSE WrapWords_drops_overflow(Tail(words), lines, Append(current_line, word),
                         current_length + Len(word) + 1, max_chars_per_line)

\* the line-filling loop over the words of a long sentence
RECURSIVE WrapWords(_, _, _, _, _)
WrapWords(words, lines, current_line, current_length, max_chars_per_line) ==
  IF words = <<>>
  THEN IF current_line # <<>>
       THEN Append(lines, Join(Chars(" "), current_line)) ELSE lines
  ELSE LET word == Head(words)
       IN IF current_length + Len(word) + 1 > max_chars_per_line
          THEN WrapWords(Tail(words), Append(lines, Join(Chars(" "), current_line)),
                         <<word>>, Len(word), max_chars_per_line)
          ELSE WrapWords(Tail(words), lines, Append(current_line, word),
                         current_length + Len(word) + 1, max_chars_per_line)

SubtitleText(sentence, max_chars_per_line) ==
  IF Len(sentence) > max_chars_per_line
  THEN Join(<<"\n">>, WrapWords(Split(sentence), <<>>, <<>>, 0, max_chars_per_line))
  ELSE sentence

\* mutant: the running clock is not advanced after an entry
RECURSIVE SegmentSubtitles_clock_stands(_, _, _, _)
SegmentSubtitles_clock_stands(sentences, current_time, time_per_sentence, max_chars_per_line) ==
  IF sentences = <<>> THEN <<>>
  ELSE << [start |-> current_time,
           end |-> FAdd(current_time, time_per_sentence),
           text |-> SubtitleText(Head(sentences), max_chars_per_line)] >>
         \o SegmentSubtitles_clock_stands(Tail(sentences), current_time,
                                          time_per_sentence, max_chars_per_line)

\* the entries of one segment: the clock starts at the segment's start_time
\* and advances by time_per_sentence after each entry
RECURSIVE SegmentSubtitles(_, _, _, _)
SegmentSubtitles(sentences, current_time, time_per_sentence, max_chars_per_line) ==
  IF sentences = <<>> THEN <<>>
  ELSE << [start |-> current_time,
           end |-> FAdd(current_time, time_per_sentence),
           text |-> SubtitleText(Head(sentences), max_chars_per_line)] >>
         \o SegmentSubtitles(Tail(sentences), FAdd(current_time, time_per_sentence),
                             time_per_sentence, max_chars_per_line)

RECURSIVE SubtitlesOf(_, _)
SubtitlesOf(segments, max_chars_per_line) ==
  IF segments = <<>> THEN <<>>
  ELSE LET segment == Head(segments)
           sentences == Sentences(segment.narration)
           time_per_sentence ==
             IF sentences # <<>> THEN FDiv(segment.duration, Len(sentences)) ELSE 0
       IN (IF segment.narration = <<>> THEN <<>>
           ELSE SegmentSubtitles(sentences, segment.start_time, time_per_sentence,
                                 max_chars_per_line))
            \o SubtitlesOf(Tail(segments), max_chars_per_line)

DefaultMaxCharsPerLine == 42

_generate_subtitles(scr) == SubtitlesOf(scr.segments, DefaultMaxCharsPerLine)

\* ------------------------------------------------------ subtitle exports
\* f"{n:0{width}d}"
ZeroPad(n, width) ==
  LET digits == NatToChars(n)
  IN [i \in 1..(width - Len(digits)) |-> "0"] \o digits

\* timedelta(seconds=seconds).total_seconds(): the seconds rounded to the
\* resolution of timedelta (ties to even), as a float
total_seconds(seconds) ==
  LET unit == Pow2(TickBits - TimedeltaBits)
  IN FRound(unit * RoundHalfEven(seconds, unit), 1)

\* HH:MM:SS,mmm
_format_srt_time(seconds) ==
  LET td == total_seconds(seconds)
      hours == td \div Sec(3600)
      minutes == (td % Sec(3600)) \div Sec(60)
      secs == (td % Sec(60)) \div TicksPerSec
      millis == FMul(seconds % TicksPerSec, 1000) \div TicksPerSec
  IN ZeroPad(hours, 2) \o <<":">> \o ZeroPad(minutes, 2) \o <<":">>
       \o ZeroPad(secs, 2) \o <<",">> \o ZeroPad(millis, 3)

\* mutant: the milliseconds are taken from the rounded timedelta
_format_vtt_time_millis_of_timedelta(seconds) ==
  LET td == total_seconds(seconds)
      hours == td \div Sec(3600)
      minutes == (td % Sec(3600)) \div Sec(60)
      secs == (td % Sec(60)) \div TicksPerSec
      millis == FMul(td % TicksPerSec, 1000) \div TicksPerSec
  IN ZeroPad(hours, 2) \o <<":">> \o ZeroPad(minutes, 2) \o <<":">>
       \o ZeroPad(secs, 2) \o <<".">> \o ZeroPad(millis, 3)

\* HH:MM:SS.mmm
_format_vtt_time(seconds) ==
  LET td == total_seconds(seconds)
      hours == td \div Sec(3600)
      minutes == (td % Sec(3600)) \div Sec(60)
      secs == (td % Sec(60)) \div TicksPerSec
      millis == FMul(seconds % TicksPerSec, 1000) \div TicksPerSec
  IN ZeroPad(hours, 2) \o <<":">> \o ZeroPad(minutes, 2) \o <<":">>
       \o ZeroPad(secs, 2) \o <<".">> \o ZeroPad(millis, 3)

\* _export_srt: the strings written to the file, in order; the file's text
\* is their concatenation
_export_srt(scr) ==
  LET subs == _generate_subtitles(scr)
  IN [j \in 1..(3 * Len(subs)) |->
        LET i == (j + 2) \div 3
            subtitle == subs[i]
        IN IF j % 3 = 1 THEN IntToChars(i) \o <<"\n">>
           ELSE IF j % 3 = 2
           THEN _format_srt_time(subtitle.start) \o Chars(" --> ")
                  \o _format_srt_time(subtitle.end) \o <<"\n">>
           ELSE subtitle.text \o <<"\n", "\n">>]

\* _export_vtt: the strings written to the file, in order
_export_vtt(scr) ==
  LET subs == _generate_subtitles(scr)
  IN << Chars("WEBVTT") \o <<"\n", "\n">> >>
       \o [j \in 1..(2 * Len(subs)) |->
             LET subtitle == subs[(j + 1) \div 2]
             IN IF j % 2 = 1
                THEN _format_vtt_time(subtitle.start) \o Chars(" --> ")
                       \o _format_vtt_time(subtitle.end) \o <<"\n">>
                ELSE subtitle.text \o <<"\n", "\n">>]

\* -------------------------------------------------------------------- json
\* a JSON document: a value tagged with its JSON type; the members of an
\* object are <<key, value>> pairs in the dict's insertion order
JStr(chars) == [t |-> "str", v |-> chars]
JInt(n) == [t |-> "int", v |-> n]
JFloat(x) == [t |-> "float", v |-> x]
JBool(b) == [t |-> "bool", v |-> b]
JArr(items) == [t |-> "arr", v |-> items]
JObj(members) == [t |-> "obj", v |-> members]
JError == [t |-> "error", v |-> 0]

Member(key, value) == << Chars(key), value >>

ElementToJson(e) ==
  IF e.type = "comment"
  THEN JObj(<< Member("type", JStr(Chars(e.type))), Member("author", JStr(e.author)),
               Member("content", JStr(e.content)), Member("score", JInt(e.score)) >>)
  ELSE IF e.type = "stat"
  THEN JObj(<< Member("type", JStr(Chars(e.type))),
               Member("label", JStr(Chars(e.label))),
               Member("value", JInt(e.value)) >>)
  ELSE IF "scroll" \in DOMAIN e
  THEN JObj(<< Member("type", JStr(Chars(e.type))), Member("content", JStr(e.content)),
               Member("scroll", JBool(e.scroll)) >>)
  ELSE JObj(<< Member("type", JStr(Chars(e.type))), Member("content", JStr(e.content)),
               Member("position", JStr(Chars(e.position))) >>)

SegmentToJson(seg) ==
  JObj(<< Member("name", JStr(Chars(seg.name))),
          Member("type", JStr(Chars(seg.type))),
          Member("start_time", JFloat(seg.start_time)),
          Member("end_time", JFloat(seg.end_time)),
          Member("duration", JFloat(seg.duration)),
          Member("narration", JStr(seg.narration)),
          Member("visual",
            JObj(<< Member("type", JStr(Chars(seg.visual.type))),
                    Member("elements",
                      JArr([i \in 1..Len(seg.visual.elements) |->
                              ElementToJson(seg.visual.elements[i])])) >>)),
          Member("required", JBool(seg.required)) >>)

MetadataToJson(m) ==
  JObj(<< Member("post_id", JStr(m.post_id)),
          Member("title", JStr(m.title)),
          Member("subreddit", JStr(m.subreddit)),
          Member("author", JStr(m.author)),
          Member("post_url", JStr(m.post_url)),
          Member("format_type", JStr(Chars(m.format_type))),
          Member("template", JStr(Chars(m.template))),
          Member("generated_at", JStr(IntToChars(m.generated_at))),
          Member("post_score", JInt(m.post_score)),
          Member("num_comments", JInt(m.num_comments)) >>)

\* the script dict as json.dump walks it
ScriptToJson(scr) ==
  JObj(<< Member("metadata", MetadataToJson(scr.metadata[1])),
          Member("segments",
            JArr([i \in 1..Len(scr.segments) |-> SegmentToJson(scr.segments[i])])),
          Member("total_duration", JFloat(scr.total_duration)),
          Member("word_count", JInt(scr.word_count)),
          Member("narration_style", JStr(Chars(scr.narration_style))) >>)

\* the first position j >= i of s whose character is in Q, Len(s) + 1 if none
FirstIn(s, i, Q) ==
  CHOOSE j \in i..(Len(s) + 1) :
    /\ j = Len(s) + 1 \/ s[j] \in Q
    /\ \A k \in i..(j - 1) : s[k] \notin Q

\* the first position j >= i of s whose character is not in Q
FirstNotIn(s, i, Q) ==
  CHOOSE j \in i..(Len(s) + 1) :
    /\ j = Len(s) + 1 \/ s[j] \notin Q
    /\ \A k \in i..(j - 1) : s[k] \in Q

CharAt(s, i) == IF i \in 1..Len(s) THEN s[i] ELSE ""

\* mutant: only the quote is escaped, a backslash is written as it is
EscapeOf_quote_only(c) ==
  IF c = "\"" THEN <<"\\", "\"">>
  ELSE IF c = "\n" THEN <<"\\", "n">>
  ELSE <<c>>

\* the encoder's string escapes (ensure_ascii=False)
EscapeOf(c) ==
  IF c = "\"" THEN <<"\\", "\"">>
  ELSE IF c = "\\" THEN <<"\\", "\\">>
  ELSE IF c = "\n" THEN <<"\\", "n">>
  ELSE <<c>>

RECURSIVE Escape(_)
Escape(s) ==
  LET k == FirstIn(s, 1, {"\"", "\\", "\n"})
  IN IF k > Len(s) THEN s
     ELSE SubSeq(s, 1, k - 1) \o EscapeOf(s[k]) \o Escape(SubSeq(s, k + 1, Len(s)))

\* the decimal digits of the fraction r / TicksPerSec, exactly
RECURSIVE FracDigits(_)
FracDigits(r) ==
  IF r = 0 THEN <<>>
  ELSE << Digit((10 * r) \div TicksPerSec) >> \o FracDigits((10 * r) % TicksPerSec)

\* float.__repr__: a decimal string that identifies the float
FloatRepr(x) ==
  LET frac == FracDigits(x % TicksPerSec)
  IN NatToChars(x \div TicksPerSec) \o <<".">>
       \o (IF frac = <<>> THEN <<"0">> ELSE frac)

Indent(level) == [i \in 1..(2 * level) |-> " "]

\* json.dumps(value, indent=2, ensure_ascii=False)
RECURSIVE Encode(_, _)
Encode(value, level) ==
  IF value.t = "str" THEN <<"\"">> \o Escape(value.v) \o <<"\"">>
  ELSE IF value.t = "int" THEN IntToChars(value.v)
  ELSE IF value.t = "float" THEN FloatRepr(value.v)
  ELSE IF value.t = "bool" THEN Chars(IF value.v THEN "true" ELSE "false")
  ELSE IF value.t = "arr"
  THEN IF value.v = <<>> THEN Chars("[]")
       ELSE <<"[", "\n">>
              \o Join(<<",", "\n">>,
                      [i \in 1..Len(value.v) |->
                         Indent(level + 1) \o Encode(value.v[i], level + 1)])
              \o <<"\n">> \o Indent(level) \o <<"]">>
  ELSE IF value.v = <<>> THEN Chars("{}")
       ELSE <<"{", "\n">>
              \o Join(<<",", "\n">>,
                      [i \in 1..Len(value.v) |->
                         Indent(level + 1) \o <<"\"">> \o Escape(value.v[i][1])
                           \o <<"\"", ":", " ">> \o Encode(value.v[i][2], level + 1)])
              \o <<"\n">> \o Indent(level) \o <<"}">>

\* _export_json: the text written to the file
_export_json(scr) == Encode(ScriptToJson(scr), 0)

Digits == {"0", "1", "2", "3", "4", "5", "6", "7", "8", "9"}
DigitValue(c) == CHOOSE d \in 0..9 : Digit(d) = c

RECURSIVE NatValue(_)
NatValue(ds) ==
  IF ds = <<>> THEN 0 ELSE 10 * NatValue(SubSeq(ds, 1, Len(ds) - 1)) + DigitValue(ds[Len(ds)])

\* the ticks of the decimal fraction 0.ds
RECURSIVE FracValue(_)
FracValue(ds) ==
  IF ds = <<>> THEN 0
  ELSE RoundHalfEven(DigitValue(Head(ds)) * TicksPerSec + FracValue(Tail(ds)), 10)

UnescapeOf(c) == IF c = "n" THEN "\n" ELSE c

RECURSIVE Unescape(_)
Unescape(x) ==
  LET k == FirstIn(x, 1, {"\\"})
  IN IF k > Len(x) THEN x
     ELSE SubSeq(x, 1, k - 1) \o << UnescapeOf(CharAt(x, k + 1)) >>
            \o Unescape(SubSeq(x, k + 2, Len(x)))

\* the position of the quote closing the string whose text starts at j,
\* Len(s) + 1 if the string is not closed
RECURSIVE StringEnd(_, _)
StringEnd(s, j) ==
  LET k == FirstIn(s, j, {"\"", "\\"})
  IN IF k > Len(s) THEN Len(s) + 1
     ELSE IF s[k] = "\"" THEN k
     ELSE IF k + 2 > Len(s) + 1 THEN Len(s) + 1
     ELSE StringEnd(s, k + 2)

Failed(s) == [v |-> JError, pos |-> Len(s) + 1]

\* s[i] is an opening quote
ParseString(s, i) ==
  LET e == StringEnd(s, i + 1)
  IN IF e > Len(s) THEN Failed(s)
     ELSE [v |-> JStr(Unescape(SubSeq(s, i + 1, e - 1))), pos |-> e + 1]

ParseNumber(s, i) ==
  LET neg == CharAt(s, i) = "-"
      a == IF neg THEN i + 1 ELSE i
      b == FirstNotIn(s, a, Digits)
      sign == IF neg THEN 0 - 1 ELSE 1
  IN IF b = a THEN Failed(s)
     ELSE IF CharAt(s, b) = "."
     THEN LET c == FirstNotIn(s, b + 1, Digits)
          IN IF c = b + 1 THEN Failed(s)
             ELSE [v |-> JFloat(sign * FRound(NatValue(SubSeq(s, a, b - 1)) * TicksPerSec
                                               + FracValue(SubSeq(s, b + 1, c - 1)), 1)),
                   pos |-> c]
     ELSE [v |-> JInt(sign * NatValue(SubSeq(s, a, b - 1))), pos |-> b]

IsLiteral(s, i, word) ==
  i + Len(word) - 1 <= Len(s) /\ SubSeq(s, i, i + Len(word) - 1) = Chars(word)

RECURSIVE ParseValue(_, _)
RECURSIVE ParseMembers(_, _, _)
RECURSIVE ParseItems(_, _, _)

ParseValue(s, i0) ==
  LET i == FirstNotIn(s, i0, Whitespace)
      c == CharAt(s, i)
  IN IF c = "\"" THEN ParseString(s, i)
     ELSE IF c = "{"
     THEN LET j == FirstNotIn(s, i + 1, Whitespace)
          IN IF CharAt(s, j) = "}" THEN [v |-> JObj(<<>>), pos |-> j + 1]
             ELSE ParseMembers(s, j, <<>>)
     ELSE IF c = "["
     THEN LET j == FirstNotIn(s, i + 1, Whitespace)
          IN IF CharAt(s, j) = "]" THEN [v |-> JArr(<<>>), pos |-> j + 1]
             ELSE ParseItems(s, j, <<>>)
     ELSE IF IsLiteral(s, i, "true") THEN [v |-> JBool(TRUE), pos |-> i + 4]
     ELSE IF IsLiteral(s, i, "false") THEN [v |-> JBool(FALSE), pos |-> i + 5]
     ELSE IF c \in Digits \cup {"-"} THEN ParseNumber(s, i)
     ELSE Failed(s)

ParseMembers(s, i, acc) ==
  IF CharAt(s, i) # "\"" THEN Failed(s)
  ELSE LET key == ParseString(s, i)
           colon == FirstNotIn(s, key.pos, Whitespace)
       IN IF key.v.t = "error" \/ CharAt(s, colon) # ":" THEN Failed(s)
          ELSE LET val == ParseValue(s, colon + 1)
                   k == FirstNotIn(s, val.pos, Whitespace)
                   members == Append(acc, << key.v.v, val.v >>)
               IN IF val.v.t = "error" THEN Failed(s)
                  ELSE IF CharAt(s, k) = ","
                  THEN ParseMembers(s, FirstNotIn(s, k + 1, Whitespace), members)
                  ELSE IF CharAt(s, k) = "}" THEN [v |-> JObj(members), pos |-> k + 1]
                  ELSE Failed(s)

ParseItems(s, i, acc) ==
  LET val == ParseValue(s, i)
      k == FirstNotIn(s, val.pos, Whitespace)
      items == Append(acc, val.v)
  IN IF val.v.t = "error" THEN Failed(s)
     ELSE IF CharAt(s, k) = "," THEN ParseItems(s, k + 1, items)
     ELSE IF CharAt(s, k) = "]" THEN [v |-> JArr(items), pos |-> k + 1]
     ELSE Failed(s)

\* json.load(f): the document, or an error for text that is not one
json_load(s) ==
  LET r == ParseValue(s, 1)
  IN IF r.v.t # "error" /\ FirstNotIn(s, r.pos, Whitespace) = Len(s) + 1
     THEN r.v ELSE JError

\* dict[key] on a parsed object: the value of the last member named key
Lookup(obj, key) ==
  LET hits == {i \in 1..Len(obj.v) : obj.v[i][1] = Chars(key)}
  IN IF obj.t # "obj" \/ hits = {} THEN JError
     ELSE obj.v[CHOOSE i \in hits : \A j \in hits : j <= i][2]

\* ------------------------------------------------------------------ inputs
Comment(author, body, score) ==
  [id |-> Chars("c1"), author |-> Chars(author), body |-> Chars(body),
   score |-> score, is_submitter |-> FALSE]

PostFull ==
  [id |-> Chars("t1"), title |-> Chars("TIL X"), author |-> Chars("ann"),
   subreddit |-> Chars("til"), url |-> Chars("http://r/t1"), score |-> 15234,
   num_comments |-> 456, body |-> Chars("Hello there. Goodbye now."),
   comments |-> << Comment("bob", "Wow!", 2543), Comment("cy", "No. Way", 60) >>,
   awards |-> << "Gold" >>]

PostNoComments ==
  [title |-> Chars("Q: a \"b\""), author |-> Chars("dee"),
   subreddit |-> Chars("ask"), body |-> <<>>, comments |-> <<>>]

PostLowComments ==
  [id |-> Chars("t3"), title |-> Chars("Up\\down \"x\""), author |-> Chars("eve"),
   subreddit |-> Chars("aww"), score |-> 0, body |-> Chars("One\ntwo three?"),
   comments |-> << Comment("fay", "meh", 5) >>]

PostNoAuthor ==
  [id |-> Chars("t4"), title |-> Chars("TIL X"), subreddit |-> Chars("til"),
   body |-> Chars("Hello there."), comments |-> <<>>]

PostIdOnly == [id |-> Chars("123")]

Posts == {PostFull, PostNoComments, PostLowComments, PostNoAuthor, PostIdOnly}

\* (format_type, template_name) pairs; "None" is the omitted template_name
Requests ==
  { <<"short", "None">>, <<"medium", "None">>, <<"long", "None">>,
    <<"tiktok", "None">>, <<"medium", "story">>, <<"medium", "compilation">>,
    <<"medium", "custom">> }

Styles == {"casual", "dramatic", "educational"}

\* ScriptGenerator(options): SCRIPT_OPTIONS overridden by the caller's options
SCRIPT_OPTIONS ==
  [words_per_minute |-> 150, pause_duration |-> TicksPerSec \div 2,
   show_usernames |-> TRUE, show_scores |-> TRUE]

OptionSets ==
  { SCRIPT_OPTIONS,
    [SCRIPT_OPTIONS EXCEPT !.words_per_minute = 180,
                           !.show_usernames = FALSE, !.show_scores = FALSE],
    [SCRIPT_OPTIONS EXCEPT !.pause_duration = 0] }

\* ------------------------------------------------------------------- state
VARIABLES
  options,          \* self.options with self.words_per_minute
  rng,              \* state of the module-level random generator
  now,              \* last reading of the system clock
  pc,               \* position of the current generate_script call
  call,             \* its arguments, and the generator state it started in
  template,         \* template.segments once get_template has returned
  idx,              \* index of the next segment spec of the loop
  cumulative_time,
  script,           \* the script under construction
  error,            \* the exception raised, "" for none
  result,           \* <<script>> once returned, <<>> otherwise
  prev,             \* <<script>> of the call this one repeats, <<>> otherwise
  subtitles,        \* <<entries>> once the subtitle splitter has run
  file,             \* text of the exported JSON file, <<>> before the export
  loaded,           \* <<document>> once the file has been parsed back
  srt_file,         \* <<writes>> of the SRT export, <<>> before the export
  vtt_file,         \* <<writes>> of the WebVTT export, <<>> before the export
  txt_file,         \* <<writes>> of the plain text export, <<>> before the export
  export_format,    \* format argument of the last export_script call, "" for none
  export_error,     \* the exception that call raised, "" for none
  fetcher_options,  \* <<RedditFetcher.options>>, <<>> before a fetcher is made
  submission,       \* <<submission>> Reddit serves for the request, <<>> for none
  fetched,          \* <<post_data>> once the fetcher has returned
  pp,               \* position of the current process_post call
  steps,            \* the steps of process_post that have started, in order
  pp_error,         \* the exception process_post raised, "" for none
  fetch_error,      \* the exception the fetcher raised, "" for none
  tts,              \* <<TTSGenerator>> once constructed: its provider and options
  disk,             \* the audio files that exist, by path
  audio,            \* <<call>> of the last direct generate_audio call: its
                    \* arguments, the path returned, whether the provider ran
  tts_error,        \* the exception the last TTSGenerator call raised, "" for none
  audio_files,      \* <<list>> returned by the last generate_from_script call
  tts_log,          \* its "Generated" and "Failed" lines, by segment number
  runs,             \* the number of generate_from_script calls made so far
  clips,            \* <<clips>> of the rendered video: each segment with the
                    \* audio entry it was given, <<>> before a video is rendered
  compose_error     \* the exception compose_video raised, "" for none

\* the state of the exports other than those above
exportVars == <<txt_file, export_format, export_error>>

\* the state of the Reddit-to-video pipeline around the script generator
fetchVars == <<fetcher_options, submission, fetched, fetch_error>>
processVars == <<pp, steps, pp_error>>
ttsVars == <<tts, disk, audio, tts_error, audio_files, tts_log, runs>>
composeVars == <<clips, compose_error>>
pipelineVars == <<fetchVars, processVars, ttsVars, composeVars>>

vars == <<options, rng, now, pc, call, template, idx, cumulative_time, script,
          error, result, prev, subtitles, file, loaded, srt_file,
          vtt_file, exportVars, pipelineVars>>

NoCall ==
  [post_data |-> PostIdOnly, format_type |-> "", template_name |-> "",
   narration_style |-> "", rng0 |-> 0]

EmptyScript ==
  [metadata |-> <<>>, segments |-> <<>>, total_duration |-> 0,
   word_count |-> 0, narration_style |-> ""]

Init ==
  /\ options \in OptionSets
  /\ rng \in 0..(RngMod - 1)
  /\ now = 0
  /\ pc = "idle"
  /\ call = NoCall
  /\ template = <<>>
  /\ idx = 0
  /\ cumulative_time = 0
  /\ script = EmptyScript
  /\ error = ""
  /\ result = <<>>
  /\ prev = <<>>
  /\ subtitles = <<>>
  /\ file = <<>>
  /\ loaded = <<>>
  /\ srt_file = <<>>
  /\ vtt_file = <<>>
  /\ txt_file = <<>>
  /\ export_format = ""
  /\ export_error = ""
  /\ fetcher_options = <<>>
  /\ submission = <<>>
  /\ fetched = <<>>
  /\ pp = "idle"
  /\ steps = <<>>
  /\ pp_error = ""
  /\ fetch_error = ""
  /\ tts = <<>>
  /\ disk = {}
  /\ audio = <<>>
  /\ tts_error = ""
  /\ audio_files = <<>>
  /\ tts_log = <<>>
  /\ runs = 0
  /\ clips = <<>>
  /\ compose_error = ""

\* the frame of a new generate_script call; its script will be exported to an
\* output path of its own
Enter(c, p) ==
  /\ call' = c
  /\ pc' = "validate"
  /\ template' = <<>>
  /\ idx' = 0
  /\ cumulative_time' = 0
  /\ script' = EmptyScript
  /\ error' = ""
  /\ result' = <<>>
  /\ prev' = p
  /\ subtitles' = <<>>
  /\ file' = <<>>
  /\ loaded' = <<>>
  /\ srt_file' = <<>>
  /\ vtt_file' = <<>>
  /\ txt_file' = <<>>
  /\ export_format' = ""
  /\ export_error' = ""
  /\ UNCHANGED <<options, now>>

\* a caller invokes generate_script(post_data, format_type, template_name,
\* narration_style), the style being one of styles
CallIn(styles) ==
  /\ pc = "idle"
  /\ \E post \in Posts, req \in Requests, style \in styles :
       Enter([post_data |-> post, format_type |-> req[1],
              template_name |-> req[2], narration_style |-> style,
              rng0 |-> rng], <<>>)
  /\ UNCHANGED rng
  /\ UNCHANGED pipelineVars

Call == CallIn(Styles)

\* the same with the default narration_style
CallDefaultStyle == CallIn({"casual"})

\* the caller re-seeds the random generator as for the call that has just
\* returned and repeats that call with the same arguments
Repeat ==
  /\ pc = "returned"
  /\ prev = <<>>
  /\ rng' = call.rng0
  /\ Enter(call, result)
  /\ UNCHANGED pipelineVars

\* self._validate_post_data(post_data)
Validate ==
  /\ pc = "validate"
  /\ IF MissingFields(call.post_data) # <<>>
     THEN /\ error' = "InvalidPostDataError"
          /\ pc' = "raised"
     ELSE /\ error' = error
          /\ pc' = "get_template"
  /\ UNCHANGED <<options, rng, now, call, template, idx, cumulative_time,
                 script, result, prev, subtitles, file, loaded,
                 srt_file, vtt_file>>
  /\ UNCHANGED exportVars
  /\ UNCHANGED pipelineVars

ResolvedTemplateName(c) ==
  IF c.template_name = "None" THEN c.format_type ELSE c.template_name

\* mutant: the compilation template is not in the catalog
get_template_without_compilation(template_name) ==
  IF template_name \notin TEMPLATES \ {"compilation"}
  THEN [error |-> "ValueError", segments |-> <<>>]
  ELSE [error |-> "", segments |-> TemplateSegments(template_name)]

\* get_template(template_name): the exception raised, or the new template
\* instance's segments
get_template(template_name) ==
  IF template_name \notin TEMPLATES
  THEN [error |-> "ValueError", segments |-> <<>>]
  ELSE [error |-> "", segments |-> TemplateSegments(template_name)]

\* template = get_template(template_name), then the script structure with
\* its metadata (which reads the clock)
GetTemplate ==
  /\ pc = "get_template"
  /\ LET template_name == ResolvedTemplateName(call)
         got == get_template(template_name)
     IN IF got.error # ""
        THEN /\ error' = got.error
             /\ pc' = "raised"
             /\ UNCHANGED <<now, template, idx, script>>
        ELSE /\ \E t \in now..MaxClock :
                  /\ now' = t
                  /\ script' =
                       [EmptyScript EXCEPT
                          !.metadata = << _generate_metadata(call.post_data,
                                            call.format_type, template_name, t) >>,
                          !.narration_style = call.narration_style]
             /\ template' = got.segments
             /\ idx' = 1
             /\ pc' = "segments"
             /\ error' = error
  /\ UNCHANGED <<options, rng, call, cumulative_time, result, prev, subtitles,
                 file, loaded,
                 srt_file, vtt_file>>
  /\ UNCHANGED exportVars
  /\ UNCHANGED pipelineVars

\* one iteration of the loop over template.segments
GenerateSegment ==
  /\ pc = "segments"
  /\ idx <= Len(template)
  /\ LET g == _generate_segment(options, template[idx], call.post_data,
                                cumulative_time, call.format_type,
                                call.narration_style, rng)
     IN /\ rng' = g.rng
        /\ IF g.segment # <<>>
           THEN /\ script' = [script EXCEPT !.segments = @ \o g.segment]
                /\ cumulative_time' = g.segment[1].end_time
           ELSE UNCHANGED <<script, cumulative_time>>
  /\ idx' = idx + 1
  /\ UNCHANGED <<options, now, pc, call, template, error, result, prev,
                 subtitles, file, loaded,
                 srt_file, vtt_file>>
  /\ UNCHANGED exportVars
  /\ UNCHANGED pipelineVars

RECURSIVE SumWords(_)
SumWords(segments) ==
  IF segments = <<>> THEN 0
  ELSE _count_words(Head(segments).narration) + SumWords(Tail(segments))

\* mutant: the call leaves the generator set to the default speaking rate
Finish_resets_rate ==
  /\ pc = "segments"
  /\ idx > Len(template)
  /\ script' = [script EXCEPT !.total_duration = cumulative_time,
                              !.word_count = SumWords(script.segments)]
  /\ result' = << script' >>
  /\ pc' = "returned"
  /\ options' = [options EXCEPT !.words_per_minute = 150]
  /\ UNCHANGED <<rng, now, call, template, idx, cumulative_time,
                 error, prev, subtitles, file, loaded, srt_file, vtt_file>>
  /\ UNCHANGED exportVars
  /\ UNCHANGED pipelineVars

\* the totals, and the return
Finish ==
  /\ pc = "segments"
  /\ idx > Len(template)
  /\ script' = [script EXCEPT !.total_duration = cumulative_time,
                              !.word_count = SumWords(script.segments)]
  /\ result' = << script' >>
  /\ pc' = "returned"
  /\ UNCHANGED <<options, rng, now, call, template, idx, cumulative_time,
                 error, prev, subtitles, file, loaded,
                 srt_file, vtt_file>>
  /\ UNCHANGED exportVars
  /\ UNCHANGED pipelineVars

\* the caller runs the subtitle splitter on the returned script
GenerateSubtitles ==
  /\ pc = "returned"
  /\ subtitles = <<>>
  /\ subtitles' = << _generate_subtitles(result[1]) >>
  /\ UNCHANGED <<options, rng, now, pc, call, template, idx, cumulative_time,
                 script, error, result, prev, file, loaded,
                 srt_file, vtt_file>>
  /\ UNCHANGED exportVars
  /\ UNCHANGED pipelineVars

\* generator.export_script(script, output_path, format="json")
ExportJson ==
  /\ pc = "returned"
  /\ file = <<>>
  /\ file' = _export_json(result[1])
  /\ UNCHANGED <<options, rng, now, pc, call, template, idx, cumulative_time,
                 script, error, result, prev, subtitles, loaded,
                 srt_file, vtt_file>>
  /\ UNCHANGED exportVars
  /\ UNCHANGED pipelineVars

\* json.load of the exported file
LoadJson ==
  /\ file # <<>>
  /\ loaded = <<>>
  /\ loaded' = << json_load(file) >>
  /\ UNCHANGED <<options, rng, now, pc, call, template, idx, cumulative_time,
                 script, error, result, prev, subtitles, file,
                 srt_file, vtt_file>>
  /\ UNCHANGED exportVars
  /\ UNCHANGED pipelineVars

\* the caller is done with the outcome of the call
Discard ==
  /\ pc \in {"returned", "raised"}
  /\ pc' = "idle"
  /\ call' = NoCall
  /\ template' = <<>>
  /\ idx' = 0
  /\ cumulative_time' = 0
  /\ script' = EmptyScript
  /\ error' = ""
  /\ result' = <<>>
  /\ prev' = <<>>
  /\ subtitles' = <<>>
  /\ file' = <<>>
  /\ loaded' = <<>>
  /\ srt_file' = <<>>
  /\ vtt_file' = <<>>
  /\ txt_file' = <<>>
  /\ export_format' = ""
  /\ export_error' = ""
  /\ UNCHANGED <<options, rng, now>>
  /\ UNCHANGED pipelineVars

Next ==
  \/ Call
  \/ Repeat
  \/ Validate
  \/ GetTemplate
  \/ GenerateSegment
  \/ Finish
  \/ Discard

Spec == Init /\ [][Next]_vars

\* generation followed by the subtitle splitter
NextSubtitles ==
  \/ Call
  \/ Validate
  \/ GetTemplate
  \/ GenerateSegment
  \/ Finish
  \/ GenerateSubtitles
  \/ Discard

SpecSubtitles == Init /\ [][NextSubtitles]_vars

\* generation followed by the JSON export and its reload
NextJson ==
  \/ CallDefaultStyle
  \/ Validate
  \/ GetTemplate
  \/ GenerateSegment
  \/ Finish
  \/ ExportJson
  \/ LoadJson
  \/ Discard

SpecJson == Init /\ [][NextJson]_vars

\* ------------------------------------------------------ narration by style
\* the styles of the generate_script docstring, and a name that is none of them
AllStyles == {"casual", "formal", "dramatic", "comedic", "educational"}

\* a caller invokes generate_script with one of the given argument tuples
\* <<post_data, format_type, template_name, narration_style>>
CallWith(calls) ==
  /\ pc = "idle"
  /\ \E c \in calls :
       Enter([post_data |-> c[1], format_type |-> c[2], template_name |-> c[3],
              narration_style |-> c[4], rng0 |-> rng], <<>>)
  /\ UNCHANGED rng
  /\ UNCHANGED pipelineVars

StyleCalls ==
  {PostFull, PostNoComments, PostLowComments}
    \X {"short", "medium", "long"} \X {"None", "story"} \X AllStyles

\* generate_script called with every narration style
CallStyled == CallWith(StyleCalls)

NextStyles ==
  \/ CallStyled
  \/ Validate
  \/ GetTemplate
  \/ GenerateSegment
  \/ Finish
  \/ Discard

SpecStyles == Init /\ [][NextStyles]_vars

\* --------------------------------------------------- subtitle file exports
PostFiveSentences ==
  [id |-> Chars("t5"), title |-> Chars("a. b. c. d. e"), author |-> Chars("gil"),
   subreddit |-> Chars("til"), score |-> 7, body |-> Chars("Hi"),
   comments |-> <<>>]

\* a body with a word longer than a subtitle line, at the start and at the
\* end of a sentence
PostLongWord ==
  [id |-> Chars("t6"), title |-> Chars("Long words"), author |-> Chars("hal"),
   subreddit |-> Chars("til"), score |-> 120,
   body |-> Chars("Pneumonoultramicroscopicsilicovolcanoconiosis is a lung disease. "
                    \o "Nobody says pneumonoultramicroscopicsilicovolcanoconiosis"),
   comments |-> << Comment("ida", "It is a very long word, that much is true", 300) >>]

SubtitleCalls ==
  {PostFull, PostLowComments, PostFiveSentences, PostLongWord}
    \X {"short", "medium", "long"} \X {"None"} \X {"casual", "dramatic"}

CallSubtitled == CallWith(SubtitleCalls)

\* generator.export_script(script, output_path, format="srt")
ExportSrt ==
  /\ pc = "returned"
  /\ srt_file = <<>>
  /\ srt_file' = << _export_srt(result[1]) >>
  /\ UNCHANGED <<options, rng, now, pc, call, template, idx, cumulative_time,
                 script, error, result, prev, subtitles, file, loaded, vtt_file>>
  /\ UNCHANGED exportVars
  /\ UNCHANGED pipelineVars

\* generator.export_script(script, output_path, format="vtt")
ExportVtt ==
  /\ pc = "returned"
  /\ vtt_file = <<>>
  /\ vtt_file' = << _export_vtt(result[1]) >>
  /\ UNCHANGED <<options, rng, now, pc, call, template, idx, cumulative_time,
                 script, error, result, prev, subtitles, file, loaded, srt_file>>
  /\ UNCHANGED exportVars
  /\ UNCHANGED pipelineVars

\* generation followed by the subtitle splitter and the two subtitle exports
NextExport ==
  \/ CallSubtitled
  \/ Validate
  \/ GetTemplate
  \/ GenerateSegment
  \/ Finish
  \/ GenerateSubtitles
  \/ ExportSrt
  \/ ExportVtt
  \/ Discard

SpecExport == Init /\ [][NextExport]_vars

\* --------------------------------------------------- calls by template name
\* list_templates(): the keys of TEMPLATES in their order
list_templates == <<"short", "medium", "long", "story", "compilation">>

\* generate_script(post_data, template_name=name) for every listed name, the
\* format_type and the narration_style left to their defaults
TemplateCalls ==
  Posts \X {"medium"} \X {list_templates[k] : k \in 1..Len(list_templates)}
    \X {"casual"}

CallByTemplate == CallWith(TemplateCalls)

NextTemplates ==
  \/ CallByTemplate
  \/ Validate
  \/ GetTemplate
  \/ GenerateSegment
  \/ Finish
  \/ Discard

SpecTemplates == Init /\ [][NextTemplates]_vars

\* ------------------------------------------------------------ long bodies
\* a body of n one-character words, a space and a newline after each but the
\* last
BodyOfWords(n) ==
  [p \in 1..(3 * n - 2) |->
     IF p % 3 = 1 THEN Digit(((p - 1) \div 3) % 10)
     ELSE IF p % 3 = 2 THEN " " ELSE "\n"]

PostWithBody(n) ==
  [id |-> Chars("t7"), title |-> Chars("Story"), author |-> Chars("jo"),
   subreddit |-> Chars("nosleep"), score |-> 42, body |-> BodyOfWords(n),
   comments |-> <<>>]

\* word counts at, below and above the three word budgets
BodySizes == {0, 1, 50, 51, 150, 151, 500, 501}

BodyCalls ==
  {PostWithBody(n) : n \in BodySizes}
    \X {"short", "medium", "long"} \X {"None"} \X {"casual"}

CallWithBody == CallWith(BodyCalls)

NextBodies ==
  \/ CallWithBody
  \/ Validate
  \/ GetTemplate
  \/ GenerateSegment
  \/ Finish
  \/ Discard

SpecBodies == Init /\ [][NextBodies]_vars

\* ---------------------------------------------------------- many comments
\* a post whose comments have the given scores, in this order
PostWithComments(scores) ==
  [id |-> Chars("t8"), title |-> Chars("Ask"), author |-> Chars("kim"),
   subreddit |-> Chars("ask"), score |-> 900, body |-> Chars("Why?"),
   comments |->
     [k \in 1..Len(scores) |->
        [id |-> Chars("c") \o NatToChars(k), author |-> Chars("u") \o NatToChars(k),
         body |-> Chars("b") \o NatToChars(k), score |-> scores[k],
         is_submitter |-> FALSE]]]

\* scores around the minimum scores 100, 50 and 10, more of them qualifying
\* than any format selects, the highest not first
CommentScores ==
  { <<5, 120, 60, 9, 200, 55, 10, 11, 12, 300, 13, 14, 15, 16, 70>>,
    <<49, 99, 50, 100>>,
    <<60, 5>>,
    <<9, 5>> }

CommentCalls ==
  {PostWithComments(scores) : scores \in CommentScores}
    \X {"short", "medium", "long"} \X {"None"} \X {"casual"}

CallWithComments == CallWith(CommentCalls)

NextComments ==
  \/ CallWithComments
  \/ Validate
  \/ GetTemplate
  \/ GenerateSegment
  \/ Finish
  \/ Discard

SpecComments == Init /\ [][NextComments]_vars

\* ----------------------------------------------------------- long comments
\* a text of n characters in which no two positions a multiple of 7 apart differ
LettersOf(n) == [k \in 1..n |-> Chars("abcdefg")[((k - 1) % 7) + 1]]

\* a post whose comments have bodies of the given lengths and a score that
\* every format selects
PostWithCommentBodies(lengths) ==
  [id |-> Chars("t9"), title |-> Chars("Ask"), author |-> Chars("kim"),
   subreddit |-> Chars("ask"), score |-> 900, body |-> Chars("Why?"),
   comments |->
     [k \in 1..Len(lengths) |->
        [id |-> Chars("c") \o NatToChars(k), author |-> Chars("u") \o NatToChars(k),
         body |-> LettersOf(lengths[k]), score |-> 100 + k,
         is_submitter |-> FALSE]]]

\* lengths on both sides of the limits of 100 and 200 characters
CommentLengths ==
  { <<0>>, <<1>>, <<100, 101>>, <<101, 100>>, <<200, 201, 99>>, <<201, 200>>, <<250, 3>> }

LongCommentCalls ==
  {PostWithCommentBodies(lengths) : lengths \in CommentLengths}
    \X {"short", "medium", "long"} \X {"None"} \X {"casual"}

CallWithLongComments == CallWith(LongCommentCalls)

NextLongComments ==
  \/ CallWithLongComments
  \/ Validate
  \/ GetTemplate
  \/ GenerateSegment
  \/ Finish
  \/ Discard

SpecLongComments == Init /\ [][NextLongComments]_vars

\* ------------------------------------------------- punctuation-only texts
\* posts whose title, body or both are nothing but terminal punctuation
PostPunctuatedTitle ==
  [id |-> Chars("t10"), title |-> Chars("?!"), author |-> Chars("lee"),
   subreddit |-> Chars("ask"), score |-> 12,
   body |-> Chars("Hi. There you go!"), comments |-> <<>>]

PostPunctuatedBody ==
  [id |-> Chars("t11"), title |-> Chars("Guess what. No really"), author |-> Chars("lee"),
   subreddit |-> Chars("ask"), score |-> 12, body |-> Chars("..."),
   comments |-> << Comment("ida", "Well. Said", 300) >>]

PostPunctuatedBoth ==
  [id |-> Chars("t12"), title |-> Chars("..."), author |-> Chars("lee"),
   subreddit |-> Chars("ask"), score |-> 12, body |-> Chars("!!!"),
   comments |-> <<>>]

PunctuatedCalls ==
  {PostPunctuatedTitle, PostPunctuatedBody, PostPunctuatedBoth, PostFull}
    \X {"short", "medium", "long"} \X {"None"} \X {"casual", "dramatic"}

CallPunctuated == CallWith(PunctuatedCalls)

NextPunctuated ==
  \/ CallPunctuated
  \/ Validate
  \/ GetTemplate
  \/ GenerateSegment
  \/ Finish
  \/ GenerateSubtitles
  \/ Discard

SpecPunctuated == Init /\ [][NextPunctuated]_vars

\* ----------------------------------------------------------- reddit fetcher
FETCH_OPTIONS ==
  [max_comments |-> 10, min_comment_score |-> 5, include_awards |-> TRUE]

\* the elements of text at the positions of keep, in order
AtPositions(text, keep) ==
  LET tagged == [i \in 1..Len(text) |-> <<i, text[i]>>]
      kept == SelectSeq(tagged, LAMBDA p : p[1] \in keep)
  IN [k \in 1..Len(kept) |-> kept[k][2]]

\* re.sub(r"\n{3,}", "\n\n", text): of a run of newlines the first two stay
CollapseNewlines(text) ==
  AtPositions(text,
    {i \in 1..Len(text) :
       ~(text[i] = "\n" /\ i > 2 /\ text[i - 1] = "\n" /\ text[i - 2] = "\n")})

\* the position after i of the first c in s, 0 when there is none
NextChar(s, i, c) ==
  LET at == {j \in (i + 1)..Len(s) : s[j] = c}
  IN IF at = {} THEN 0 ELSE MinOf(at)

\* r"\[([^\]]+)\]\([^\)]+\)" matched at position i of s: the positions of
\* its "]" and of its last ")", <<>> when it does not match there
LinkAt(s, i) ==
  LET j == NextChar(s, i, "]")
      k == NextChar(s, j + 1, ")")
  IN IF s[i] = "[" /\ j > i + 1 /\ j < Len(s) /\ s[j + 1] = "(" /\ k > j + 2
     THEN <<j, k>> ELSE <<>>

\* re.sub(r"\[([^\]]+)\]\([^\)]+\)", r"\1", s) from position i on
RECURSIVE Unlink(_, _)
Unlink(s, i) ==
  IF i > Len(s) THEN <<>>
  ELSE LET link == LinkAt(s, i)
       IN IF link # <<>>
          THEN SubSeq(s, i + 1, link[1] - 1) \o Unlink(s, link[2] + 1)
          ELSE << s[i] >> \o Unlink(s, i + 1)

\* the grave accent, which a string of this module cannot hold
GraveAccent == "grave"

_clean_text(text) ==
  IF text = <<>> THEN <<>>
  ELSE LET unlinked == Unlink(CollapseNewlines(text), 1)
           plain == SelectSeq(unlinked,
                      LAMBDA c : c \notin {"*", "_", "~", GraveAccent})
       IN Strip(plain)

\* str(author) if author else "[deleted]"
AuthorName(author) == IF author = <<>> THEN Chars("[deleted]") ELSE author[1]

\* the comments of submission.comments.list()[:max_comments] that have a
\* body and a score of min_comment_score or more
_extract_comments(opts, subm) ==
  LET listed ==
        SubSeq(subm.comments, 1,
               IF Len(subm.comments) < opts.max_comments
               THEN Len(subm.comments) ELSE opts.max_comments)
      kept == SelectSeq(listed,
                LAMBDA c : "body" \in DOMAIN c /\ c.score >= opts.min_comment_score)
  IN [k \in 1..Len(kept) |->
        [id |-> kept[k].id, author |-> AuthorName(kept[k].author),
         body |-> _clean_text(kept[k].body), score |-> kept[k].score,
         is_submitter |-> kept[k].is_submitter]]

\* the keys of the post data that the script generator reads
_extract_post_data(opts, subm) ==
  LET base ==
        [id |-> subm.id, title |-> subm.title, author |-> AuthorName(subm.author),
         subreddit |-> subm.subreddit,
         url |-> Chars("https://reddit.com") \o subm.permalink,
         score |-> subm.score, num_comments |-> subm.num_comments,
         body |-> IF subm.is_self THEN _clean_text(subm.selftext) ELSE <<>>,
         comments |-> _extract_comments(opts, subm)]
  IN IF opts.include_awards
     THEN [key \in DOMAIN base \cup {"awards"} |->
             IF key = "awards" THEN subm.all_awardings ELSE base[key]]
     ELSE base

\* a comment of a submission as Reddit serves it
RedditComment(k, author, body, score) ==
  [id |-> Chars("c") \o NatToChars(k), author |-> author, body |-> Chars(body),
   score |-> score, is_submitter |-> FALSE]

\* a self post with the given comments
Submission(id, selftext, comments) ==
  [id |-> Chars(id), title |-> Chars("TIL: a thing"), author |-> << Chars("ann") >>,
   subreddit |-> Chars("til"), permalink |-> Chars("/r/til/") \o Chars(id),
   score |-> 321, num_comments |-> Len(comments), is_self |-> TRUE,
   selftext |-> Chars(selftext), all_awardings |-> <<>>, comments |-> comments]

\* comments with the given scores, in this order
ScoredComments(scores) ==
  [k \in 1..Len(scores) |->
     RedditComment(k, << Chars("u") \o NatToChars(k) >>, "So **true**", scores[k])]

\* every list of up to 3 scores around the minimum scores 5 and 50, and a
\* list of 12 with a low score first
FetcherScores ==
  UNION {[1..n -> {4, 5, 60}] : n \in 0..3}
    \cup { <<1, 7, 7, 7, 7, 7, 7, 7, 7, 7, 7, 7>> }

FetcherSubmissions ==
  {Submission("s1", "Read [this](http://x.y) *now*", ScoredComments(scores)) :
     scores \in FetcherScores}
    \cup { Submission("s2", "",
             << RedditComment(1, <<>>, "gone", 9),
                [id |-> Chars("c2"), score |-> 9],
                RedditComment(3, << Chars("bo") >>, "a\n\n\n\nb", 9) >>) }

\* RedditFetcher(options=...): FETCH_OPTIONS with the given overrides
FetcherOptionSets ==
  { [FETCH_OPTIONS EXCEPT !.max_comments = n, !.min_comment_score = m] :
      n \in {1, 2, 10}, m \in {5, 50} }
    \cup { [FETCH_OPTIONS EXCEPT !.include_awards = FALSE] }

\* RedditFetcher(options=...), the connection test passing or failing
NewFetcher ==
  /\ fetcher_options = <<>>
  /\ fetch_error = ""
  /\ \/ \E opts \in FetcherOptionSets :
          /\ fetcher_options' = << opts >>
          /\ fetch_error' = ""
     \/ /\ fetch_error' = "RedditConnectionError"
        /\ UNCHANGED fetcher_options
  /\ UNCHANGED <<options, rng, now, pc, call, template, idx, cumulative_time,
                 script, error, result, prev, subtitles, file, loaded, srt_file,
                 vtt_file, exportVars, submission, fetched, processVars, ttsVars,
                 composeVars>>

\* fetcher.fetch_post_by_id(post_id): Reddit serves a submission, or has
\* none of that id, or the request fails
FetchPostById ==
  /\ fetcher_options # <<>>
  /\ fetched = <<>>
  /\ fetch_error = ""
  /\ \/ \E subm \in FetcherSubmissions :
          /\ submission' = << subm >>
          /\ fetched' = << _extract_post_data(fetcher_options[1], subm) >>
          /\ fetch_error' = ""
     \/ /\ fetch_error' \in {"RedditPostNotFoundError", "RedditFetcherError"}
        /\ UNCHANGED <<submission, fetched>>
  /\ UNCHANGED <<options, rng, now, pc, call, template, idx, cumulative_time,
                 script, error, result, prev, subtitles, file, loaded, srt_file,
                 vtt_file, exportVars, fetcher_options, processVars, ttsVars,
                 composeVars>>

\* the caller is done with the post, or with the exception
DropPost ==
  /\ fetched # <<>> \/ fetch_error # ""
  /\ submission' = <<>>
  /\ fetched' = <<>>
  /\ fetch_error' = ""
  /\ UNCHANGED <<options, rng, now, pc, call, template, idx, cumulative_time,
                 script, error, result, prev, subtitles, file, loaded, srt_file,
                 vtt_file, exportVars, fetcher_options, processVars, ttsVars,
                 composeVars>>

NextFetcher ==
  \/ NewFetcher
  \/ FetchPostById
  \/ DropPost

SpecFetcher == Init /\ [][NextFetcher]_vars

\* ----------------------------------------------------------- export_script
\* str.upper() on the letters of the segment names
Upper(text) ==
  LET lower == Chars("abcdefghijklmnopqrstuvwxyz")
      upper == Chars("ABCDEFGHIJKLMNOPQRSTUVWXYZ")
  IN [k \in 1..Len(text) |->
        IF \E i \in 1..26 : lower[i] = text[k]
        THEN upper[CHOOSE i \in 1..26 : lower[i] = text[k]] ELSE text[k]]

\* f"{x:.1f}": the decimal with one digit after the point nearest to x, ties
\* to the even digit
Fixed1(x) ==
  LET tenths == RoundHalfEven(10 * x, TicksPerSec)
  IN NatToChars(tenths \div 10) \o <<".">> \o << Digit(tenths % 10) >>

Rule(c) == [i \in 1..60 |-> c]

\* the "  {key}: {value}\n" lines of script["metadata"].items()
MetadataLines(m) ==
  LET line(key, value) == Chars("  ") \o Chars(key) \o Chars(": ") \o value \o <<"\n">>
  IN << line("post_id", m.post_id), line("title", m.title),
        line("subreddit", m.subreddit), line("author", m.author),
        line("post_url", m.post_url), line("format_type", Chars(m.format_type)),
        line("template", Chars(m.template)),
        line("generated_at", IntToChars(m.generated_at)),
        line("post_score", IntToChars(m.post_score)),
        line("num_comments", IntToChars(m.num_comments)) >>

\* the seven writes of segment i
SegmentLines(segment, i) ==
  << Chars("SEGMENT ") \o IntToChars(i) \o Chars(": ")
       \o Upper(Chars(segment.name)) \o <<"\n">>,
     Rule("-") \o <<"\n">>,
     Chars("Time: ") \o Fixed1(segment.start_time) \o Chars("s - ")
       \o Fixed1(segment.end_time) \o Chars("s (") \o Fixed1(segment.duration)
       \o Chars("s)") \o <<"\n">>,
     Chars("Type: ") \o Chars(segment.type) \o <<"\n">>,
     <<"\n">> \o Chars("Narration:") \o <<"\n">> \o segment.narration \o <<"\n">>,
     <<"\n">> \o Chars("Visual: ") \o Chars(segment.visual.type) \o <<"\n">>,
     <<"\n">> \o Rule("=") \o <<"\n", "\n">> >>

RECURSIVE AllSegmentLines(_, _)
AllSegmentLines(segments, i) ==
  IF i > Len(segments) THEN <<>>
  ELSE SegmentLines(segments[i], i) \o AllSegmentLines(segments, i + 1)

\* _export_txt: the strings written to the file, in order
_export_txt(scr) ==
  << Rule("=") \o <<"\n">>,
     Chars("VIDEO SCRIPT") \o <<"\n">>,
     Rule("=") \o <<"\n", "\n">>,
     Chars("METADATA:") \o <<"\n">> >>
    \o MetadataLines(scr.metadata[1])
    \o << <<"\n">> \o Chars("Total Duration: ") \o Fixed1(scr.total_duration)
            \o Chars(" seconds") \o <<"\n">>,
          Chars("Word Count: ") \o IntToChars(scr.word_count) \o <<"\n">>,
          <<"\n">> \o Rule("=") \o <<"\n", "\n">> >>
    \o AllSegmentLines(scr.segments, 1)

\* the format arguments of the callers: the four formats and other strings
ExportFormats == {"json", "txt", "srt", "vtt", "JSON", "xml", "text"}

\* mutant: a format that is none of the four is written as JSON
ExportScript_json_by_default ==
  /\ pc = "returned"
  /\ export_error = ""
  /\ \E format \in ExportFormats :
       /\ export_format' = format
       /\ IF format = "txt"
          THEN /\ txt_file = <<>>
               /\ txt_file' = << _export_txt(result[1]) >>
               /\ UNCHANGED <<file, srt_file, vtt_file, export_error>>
          ELSE IF format = "srt"
          THEN /\ srt_file = <<>>
               /\ srt_file' = << _export_srt(result[1]) >>
               /\ UNCHANGED <<file, txt_file, vtt_file, export_error>>
          ELSE IF format = "vtt"
          THEN /\ vtt_file = <<>>
               /\ vtt_file' = << _export_vtt(result[1]) >>
               /\ UNCHANGED <<file, txt_file, srt_file, export_error>>
          ELSE /\ file = <<>>
               /\ file' = _export_json(result[1])
               /\ UNCHANGED <<txt_file, srt_file, vtt_file, export_error>>
  /\ UNCHANGED <<options, rng, now, pc, call, template, idx, cumulative_time,
                 script, error, result, prev, subtitles, loaded>>
  /\ UNCHANGED pipelineVars

\* generator.export_script(script, output_path, format), each format to an
\* output path of its own
ExportScript ==
  /\ pc = "returned"
  /\ export_error = ""
  /\ \E format \in ExportFormats :
       /\ export_format' = format
       /\ IF format = "json"
          THEN /\ file = <<>>
               /\ file' = _export_json(result[1])
               /\ UNCHANGED <<txt_file, srt_file, vtt_file, export_error>>
          ELSE IF format = "txt"
          THEN /\ txt_file = <<>>
               /\ txt_file' = << _export_txt(result[1]) >>
               /\ UNCHANGED <<file, srt_file, vtt_file, export_error>>
          ELSE IF format = "srt"
          THEN /\ srt_file = <<>>
               /\ srt_file' = << _export_srt(result[1]) >>
               /\ UNCHANGED <<file, txt_file, vtt_file, export_error>>
          ELSE IF format = "vtt"
          THEN /\ vtt_file = <<>>
               /\ vtt_file' = << _export_vtt(result[1]) >>
               /\ UNCHANGED <<file, txt_file, srt_file, export_error>>
          ELSE /\ export_error' = "ValueError"
               /\ UNCHANGED <<file, txt_file, srt_file, vtt_file>>
  /\ UNCHANGED <<options, rng, now, pc, call, template, idx, cumulative_time,
                 script, error, result, prev, subtitles, loaded>>
  /\ UNCHANGED pipelineVars

ExportingCalls ==
  {PostFull, PostNoComments} \X {"short", "medium"} \X {"None"} \X {"casual"}

CallExporting == CallWith(ExportingCalls)

NextExportScript ==
  \/ CallExporting
  \/ Validate
  \/ GetTemplate
  \/ GenerateSegment
  \/ Finish
  \/ ExportScript
  \/ Discard

SpecExportScript == Init /\ [][NextExportScript]_vars

\* ------------------------------------------------------------ tts generator
\* the keys of TTS_PROVIDERS, and those that require an API key
TTS_PROVIDERS == {"gtts", "pyttsx3", "google_cloud", "amazon_polly", "elevenlabs"}
RequiresApiKey == {"google_cloud", "amazon_polly", "elevenlabs"}

\* hashlib.md5(text.encode()).hexdigest()[:12], taken as free of collisions:
\* the text stands for its digest
Md5Prefix(text) == text

\* os.path.join(cache_dir, f"{provider}_{segment_name}_{text_hash}.mp3"), as
\* the parts of the path
_get_cache_path(t, text, segment_name) ==
  [dir |-> "./tts_cache", provider |-> t.provider, segment_name |-> segment_name,
   text_hash |-> Md5Prefix(text)]

\* output_dir / f"{i:02d}_{segment_name}.mp3", as the parts of the path
OutputFile(output_dir, i, segment_name) ==
  [dir |-> output_dir, number |-> ZeroPad(i, 2), segment_name |-> segment_name]

\* mutant: the audio is cached whether or not the provider produced it
generate_audio_caches_failures(t, files, text, output_path, segment_name, provider_ok) ==
  LET cache_path == _get_cache_path(t, text, segment_name)
  IN IF ~t.provider_available
     THEN [error |-> "AudioGenerationError", path |-> <<>>, disk |-> files,
           invoked |-> FALSE]
     ELSE IF t.cache_audio /\ cache_path \in files
     THEN [error |-> "", path |-> << cache_path >>, disk |-> files,
           invoked |-> FALSE]
     ELSE IF provider_ok
     THEN [error |-> "", path |-> << output_path >>,
           disk |-> IF t.cache_audio THEN files \cup {output_path, cache_path}
                    ELSE files \cup {output_path},
           invoked |-> TRUE]
     ELSE [error |-> "AudioGenerationError", path |-> <<>>,
           disk |-> IF t.cache_audio THEN files \cup {cache_path} ELSE files,
           invoked |-> TRUE]

\* generate_audio on a generator t with the audio files `files` on disk; the
\* provider, when it is invoked, writes output_path or raises (provider_ok)
generate_audio(t, files, text, output_path, segment_name, provider_ok) ==
  LET cache_path == _get_cache_path(t, text, segment_name)
  IN IF ~t.provider_available
     THEN [error |-> "AudioGenerationError", path |-> <<>>, disk |-> files,
           invoked |-> FALSE]
     ELSE IF t.cache_audio /\ cache_path \in files
     THEN [error |-> "", path |-> << cache_path >>, disk |-> files,
           invoked |-> FALSE]
     ELSE IF provider_ok
     THEN [error |-> "", path |-> << output_path >>,
           disk |-> IF t.cache_audio THEN files \cup {output_path, cache_path}
                    ELSE files \cup {output_path},
           invoked |-> TRUE]
     ELSE [error |-> "AudioGenerationError", path |-> <<>>, disk |-> files,
           invoked |-> TRUE]

\* mutant: the loop over the segments ends at the first failure
RECURSIVE FromSegments_stops_at_failure(_, _, _, _, _, _)
FromSegments_stops_at_failure(t, segments, i, output_dir, fails, state) ==
  IF i > Len(segments) THEN state
  ELSE LET segment == segments[i]
           narration == Strip(Get(segment, "narration", <<>>))
           g == generate_audio(t, state.disk, narration,
                               OutputFile(output_dir, i, segment.name),
                               segment.name, i \notin fails)
       IN IF narration = <<>>
          THEN FromSegments_stops_at_failure(t, segments, i + 1, output_dir, fails, state)
          ELSE IF g.error = ""
          THEN FromSegments_stops_at_failure(t, segments, i + 1, output_dir, fails,
                 [audio_files |-> Append(state.audio_files,
                    [segment_number |-> i, segment_name |-> segment.name,
                     audio_path |-> g.path[1], text |-> narration,
                     start_time |-> Get(segment, "start_time", 0),
                     duration |-> Get(segment, "duration", 0)]),
                  disk |-> g.disk,
                  log |-> Append(state.log, <<i, "Generated">>)])
          ELSE [audio_files |-> state.audio_files, disk |-> g.disk,
                log |-> Append(state.log, <<i, "Failed">>)]

\* the loop of generate_from_script from segment i on; the provider fails on
\* the segments numbered in fails
RECURSIVE FromSegments(_, _, _, _, _, _)
FromSegments(t, segments, i, output_dir, fails, state) ==
  IF i > Len(segments) THEN state
  ELSE LET segment == segments[i]
           narration == Strip(Get(segment, "narration", <<>>))
           g == generate_audio(t, state.disk, narration,
                               OutputFile(output_dir, i, segment.name),
                               segment.name, i \notin fails)
       IN IF narration = <<>>
          THEN FromSegments(t, segments, i + 1, output_dir, fails, state)
          ELSE IF g.error = ""
          THEN FromSegments(t, segments, i + 1, output_dir, fails,
                 [audio_files |-> Append(state.audio_files,
                    [segment_number |-> i, segment_name |-> segment.name,
                     audio_path |-> g.path[1], text |-> narration,
                     start_time |-> Get(segment, "start_time", 0),
                     duration |-> Get(segment, "duration", 0)]),
                  disk |-> g.disk,
                  log |-> Append(state.log, <<i, "Generated">>)])
          ELSE FromSegments(t, segments, i + 1, output_dir, fails,
                 [audio_files |-> state.audio_files, disk |-> g.disk,
                  log |-> Append(state.log, <<i, "Failed">>)])

generate_from_script(t, files, scr, output_dir, fails) ==
  FromSegments(t, scr.segments, 1, output_dir, fails,
               [audio_files |-> <<>>, disk |-> files, log |-> <<>>])

\* TTSGenerator(provider, options={"cache_audio": ...}): the provider's
\* package is installed or not, its API key is set or not
NewTts ==
  /\ tts = <<>>
  /\ \E provider \in {"gtts", "elevenlabs", "espeak"},
        cache_audio, installed, has_api_key \in BOOLEAN :
       IF provider \notin TTS_PROVIDERS
       THEN /\ tts_error' = "ProviderNotFoundError"
            /\ UNCHANGED tts
       ELSE IF provider \in RequiresApiKey /\ ~has_api_key
       THEN /\ tts_error' = "APIKeyMissingError"
            /\ UNCHANGED tts
       ELSE /\ tts' = << [provider |-> provider, cache_audio |-> cache_audio,
                          provider_available |-> installed] >>
            /\ tts_error' = ""
  /\ UNCHANGED <<options, rng, now, pc, call, template, idx, cumulative_time,
                 script, error, result, prev, subtitles, file, loaded, srt_file,
                 vtt_file, exportVars, fetchVars, processVars, composeVars, disk, audio,
                 audio_files, tts_log, runs>>

\* the texts, segment names and output files of the direct calls
AudioTexts == {Chars("Hello there"), Chars("Bye")}
AudioNames == {"audio", "hook"}

\* tts.generate_audio(text, output_path, segment_name), the provider
\* succeeding or failing when it is invoked
GenerateAudio ==
  /\ tts # <<>>
  /\ \E text \in AudioTexts, segment_name \in AudioNames, provider_ok \in BOOLEAN :
       LET output_path == OutputFile("./audio_output", 0, segment_name)
           g == generate_audio(tts[1], disk, text, output_path, segment_name,
                               provider_ok)
       IN /\ disk' = g.disk
          /\ tts_error' = g.error
          /\ audio' = << [text |-> text, segment_name |-> segment_name,
                          output_path |-> output_path, path |-> g.path,
                          invoked |-> g.invoked] >>
  /\ UNCHANGED <<options, rng, now, pc, call, template, idx, cumulative_time,
                 script, error, result, prev, subtitles, file, loaded, srt_file,
                 vtt_file, exportVars, fetchVars, processVars, composeVars, tts,
                 audio_files, tts_log, runs>>

\* posts whose body is empty, and nothing but white space
PostEmptyBody ==
  [id |-> Chars("t13"), title |-> Chars("A link"), author |-> Chars("moe"),
   subreddit |-> Chars("pics"), score |-> 40, body |-> <<>>,
   comments |-> << Comment("ned", "Nice", 150) >>]

PostBlankBody ==
  [id |-> Chars("t14"), title |-> Chars("A blank"), author |-> Chars("moe"),
   subreddit |-> Chars("pics"), score |-> 40, body |-> Chars("  "),
   comments |-> << Comment("ned", "Nice", 150) >>]

TtsCalls ==
  {PostFull, PostEmptyBody, PostBlankBody} \X {"short"} \X {"None"} \X {"casual"}

CallForAudio == CallWith(TtsCalls)

\* tts.generate_from_script(script, output_dir) on the returned script, the
\* provider failing on the segments of one of the given sets; at most MaxRuns
\* calls are made
GenerateFromScriptFailing(patterns) ==
  /\ pc = "returned"
  /\ tts # <<>>
  /\ runs < MaxRuns
  /\ runs' = runs + 1
  /\ \E fails \in patterns :
       LET r == generate_from_script(tts[1], disk, result[1], "./audio_output", fails)
       IN /\ audio_files' = << r.audio_files >>
          /\ disk' = r.disk
          /\ tts_log' = r.log
  /\ tts_error' = ""
  /\ UNCHANGED <<options, rng, now, pc, call, template, idx, cumulative_time,
                 script, error, result, prev, subtitles, file, loaded, srt_file,
                 vtt_file, exportVars, fetchVars, processVars, composeVars, tts,
                 audio>>

\* the provider failing on any of the up to four segments of a short script
GenerateFromScript == GenerateFromScriptFailing(SUBSET (1..4))

NextTts ==
  \/ CallForAudio
  \/ Validate
  \/ GetTemplate
  \/ GenerateSegment
  \/ Finish
  \/ NewTts
  \/ GenerateFromScript

SpecTts == Init /\ [][NextTts]_vars

NextAudio ==
  \/ NewTts
  \/ GenerateAudio

SpecAudio == Init /\ [][NextAudio]_vars

\* ----------------------------------------------------------- video composer
\* next((a for a in audio_files if a["segment_name"] == segment["name"]), None)
AudioFor(audio_list, segment) ==
  LET hits == {k \in 1..Len(audio_list) : audio_list[k].segment_name = segment.name}
  IN IF hits = {} THEN <<>> ELSE << audio_list[MinOf(hits)] >>

\* the clips of compose_video: each segment with the audio entry found for
\* it, which is heard when its file exists
VideoClips(scr, audio_list, files) ==
  [i \in 1..Len(scr.segments) |->
     LET audio_info == AudioFor(audio_list, scr.segments[i])
     IN [segment_number |-> i, name |-> scr.segments[i].name,
         audio_info |-> audio_info,
         has_audio |-> audio_info # <<>> /\ audio_info[1].audio_path \in files]]

\* composer.compose_video(script, audio_files, output_path): the rendering
\* succeeds or fails
ComposeVideo ==
  /\ pc = "returned"
  /\ audio_files # <<>>
  /\ clips = <<>>
  /\ compose_error = ""
  /\ LET video_clips == VideoClips(result[1], audio_files[1], disk)
     IN IF video_clips = <<>>
        THEN /\ compose_error' = "RenderingError"
             /\ UNCHANGED clips
        ELSE \/ /\ clips' = << video_clips >>
                /\ UNCHANGED compose_error
             \/ /\ compose_error' = "RenderingError"
                /\ UNCHANGED clips
  /\ UNCHANGED <<options, rng, now, pc, call, template, idx, cumulative_time,
                 script, error, result, prev, subtitles, file, loaded, srt_file,
                 vtt_file, exportVars, fetchVars, processVars, ttsVars>>

\* a script from every template of the catalog
VideoCalls ==
  {PostFull, PostEmptyBody} \X {"medium"}
    \X {list_templates[k] : k \in 1..Len(list_templates)} \X {"casual"}

CallForVideo == CallWith(VideoCalls)

\* the provider failing on none, one, two or all of the segments
FewFailures == { {}, {2}, {1, 3}, 1..10 }

GenerateFromScriptFew == GenerateFromScriptFailing(FewFailures)

NextCompose ==
  \/ CallForVideo
  \/ Validate
  \/ GetTemplate
  \/ GenerateSegment
  \/ Finish
  \/ NewTts
  \/ GenerateFromScriptFew
  \/ ComposeVideo

SpecCompose == Init /\ [][NextCompose]_vars

\* ------------------------------------------------------- reddit to video
generatorVars ==
  <<options, rng, now, pc, call, template, idx, cumulative_time, script, error,
    result, prev, subtitles, file, loaded, srt_file, vtt_file>>

\* str.lower()
Lower(text) ==
  LET lower == Chars("abcdefghijklmnopqrstuvwxyz")
      upper == Chars("ABCDEFGHIJKLMNOPQRSTUVWXYZ")
  IN [k \in 1..Len(text) |->
        IF \E i \in 1..26 : upper[i] = text[k]
        THEN lower[CHOOSE i \in 1..26 : upper[i] = text[k]] ELSE text[k]]

\* f"{subreddit}_{post_id}{suffix}.{extension}" in the output directory
_generate_filename(post_data, extension, suffix) ==
  LET subreddit == Get(post_data, "subreddit", Chars("reddit"))
  IN [dir |-> "./output",
      subreddit |-> Lower([k \in 1..Len(subreddit) |->
                             IF subreddit[k] = " " THEN "_" ELSE subreddit[k]]),
      post_id |-> Get(post_data, "id", Chars("post")),
      suffix |-> suffix, extension |-> extension]

\* the format of the script for the format of the video
ScriptFormat(video_format) ==
  IF video_format \in {"tiktok", "youtube_shorts"} THEN "short"
  ELSE IF video_format \in {"instagram", "facebook"} THEN "medium"
  ELSE "long"

\* the steps of process_post, in the order of its code
PipelineSteps ==
  << "fetch post", "generate script", "save script", "generate audio",
     "save audio manifest", "compose video", "generate thumbnail" >>

\* mutant: the exception of the failed step leaves process_post as it is
process_post_except_reraises(e) == e

\* except Exception as e: raise RedditToVideoError(f"Pipeline failed: {e}")
process_post_except(e) == "RedditToVideoError"

\* a step raises e: process_post ends with the exception of its except clause
Raised(e) ==
  /\ pp' = "raised"
  /\ pp_error' = process_post_except(e)

\* the step is done and the next one is reached
Reached(step) ==
  /\ pp' = step
  /\ pp_error' = pp_error

\* the posts Reddit serves to the pipeline
PipelineSubmissions ==
  { Submission("s1", "Read [this](http://x.y) *now*", ScoredComments(<<60, 4>>)),
    Submission("s2", "", <<>>) }

\* step 1, _fetch_post(post_id, post_url): the fetcher is built at the first
\* call, then the post is fetched by its URL or its id
FetchPost ==
  /\ pp = "idle"
  /\ pc = "idle"
  /\ tts # <<>>
  /\ steps' = Append(steps, "fetch post")
  /\ \E request \in {"post_id", "post_url", "neither"} :
       \/ /\ fetch_error' = "RedditConnectionError"
          /\ Raised("RedditConnectionError")
          /\ UNCHANGED <<fetcher_options, submission, fetched>>
       \/ /\ fetcher_options' = << FETCH_OPTIONS >>
          /\ IF request = "neither"
             THEN /\ Raised("RedditToVideoError")
                  /\ UNCHANGED <<submission, fetched, fetch_error>>
             ELSE \/ \E subm \in PipelineSubmissions :
                       /\ submission' = << subm >>
                       /\ fetched' = << _extract_post_data(FETCH_OPTIONS, subm) >>
                       /\ fetch_error' = ""
                       /\ Reached("generate script")
                  \/ \E e \in {"RedditPostNotFoundError", "RedditFetcherError"} :
                       /\ fetch_error' = e
                       /\ Raised(e)
                       /\ UNCHANGED <<submission, fetched>>
  /\ UNCHANGED <<generatorVars, exportVars, ttsVars, composeVars>>

\* step 2, _generate_script(post_data): generate_script is called with the
\* format of self.video_format and self.narration_style
GenerateScript ==
  /\ pp = "generate script"
  /\ steps' = Append(steps, "generate script")
  /\ \E video_format \in {"tiktok", "instagram", "youtube"} :
       Enter([post_data |-> fetched[1], format_type |-> ScriptFormat(video_format),
              template_name |-> "None", narration_style |-> "casual",
              rng0 |-> rng], <<>>)
  /\ Reached("generating script")
  /\ UNCHANGED <<rng, fetchVars, ttsVars, composeVars>>

\* generate_script has returned the script or raised
ScriptGenerated ==
  /\ pp = "generating script"
  /\ pc \in {"returned", "raised"}
  /\ IF pc = "raised" THEN Raised(error) ELSE Reached("save script")
  /\ UNCHANGED <<generatorVars, exportVars, fetchVars, ttsVars, composeVars, steps>>

\* _save_script(script, post_data): the file is written or open() fails
SaveScript ==
  /\ pp = "save script"
  /\ steps' = Append(steps, "save script")
  /\ \/ /\ disk' = disk \cup {_generate_filename(fetched[1], "json", "_script")}
        /\ Reached("generate audio")
     \/ /\ Raised("OSError")
        /\ UNCHANGED disk
  /\ UNCHANGED <<generatorVars, exportVars, fetchVars, composeVars, tts, audio,
                 tts_error, audio_files, tts_log, runs>>

\* step 3, _generate_audio(script): generate_from_script with the provider
\* failing on some segments, or the audio directory cannot be made
GenerateAudioFiles ==
  /\ pp = "generate audio"
  /\ steps' = Append(steps, "generate audio")
  /\ \/ \E fails \in FewFailures :
          LET r == generate_from_script(tts[1], disk, result[1], "./output/audio", fails)
          IN /\ audio_files' = << r.audio_files >>
             /\ disk' = r.disk
             /\ tts_log' = r.log
             /\ Reached("save audio manifest")
     \/ /\ Raised("OSError")
        /\ UNCHANGED <<audio_files, disk, tts_log>>
  /\ UNCHANGED <<generatorVars, exportVars, fetchVars, composeVars, tts, audio,
                 tts_error, runs>>

\* _save_audio_manifest(audio_files, post_data)
SaveAudioManifest ==
  /\ pp = "save audio manifest"
  /\ steps' = Append(steps, "save audio manifest")
  /\ \/ /\ disk' = disk \cup {_generate_filename(fetched[1], "json", "_audio_manifest")}
        /\ Reached("compose video")
     \/ /\ Raised("OSError")
        /\ UNCHANGED disk
  /\ UNCHANGED <<generatorVars, exportVars, fetchVars, composeVars, tts, audio,
                 tts_error, audio_files, tts_log, runs>>

\* step 4, _compose_video(script, audio_files, post_data, background_music)
ComposeVideoFile ==
  /\ pp = "compose video"
  /\ steps' = Append(steps, "compose video")
  /\ LET video_clips == VideoClips(result[1], audio_files[1], disk)
     IN \/ /\ video_clips # <<>>
           /\ clips' = << video_clips >>
           /\ disk' = disk \cup {_generate_filename(fetched[1], "mp4", "")}
           /\ Reached("generate thumbnail")
           /\ UNCHANGED compose_error
        \/ /\ compose_error' = "RenderingError"
           /\ Raised("RenderingError")
           /\ UNCHANGED <<clips, disk>>
  /\ UNCHANGED <<generatorVars, exportVars, fetchVars, tts, audio, tts_error,
                 audio_files, tts_log, runs>>

\* step 5, _generate_thumbnail(script, post_data): process_post returns the
\* paths after it
GenerateThumbnail ==
  /\ pp = "generate thumbnail"
  /\ steps' = Append(steps, "generate thumbnail")
  /\ \/ /\ disk' = disk \cup {_generate_filename(fetched[1], "jpg", "_thumbnail")}
        /\ Reached("returned")
        /\ UNCHANGED compose_error
     \/ /\ compose_error' = "VideoComposerError"
        /\ Raised("VideoComposerError")
        /\ UNCHANGED disk
  /\ UNCHANGED <<generatorVars, exportVars, fetchVars, clips, tts, audio, tts_error,
                 audio_files, tts_log, runs>>

NextProcess ==
  \/ NewTts
  \/ FetchPost
  \/ GenerateScript
  \/ Validate
  \/ GetTemplate
  \/ GenerateSegment
  \/ Finish
  \/ ScriptGenerated
  \/ SaveScript
  \/ GenerateAudioFiles
  \/ SaveAudioManifest
  \/ ComposeVideoFile
  \/ GenerateThumbnail

SpecProcess == Init /\ [][NextProcess]_vars

\* ------------------------------------------------------------ properties
Segs == script.segments
SegNames(segments) == [i \in 1..Len(segments) |-> segments[i].name]
Emitted(name) == \E i \in 1..Len(Segs) : Segs[i].name = name
SpecOf(name) == CHOOSE sp \in {template[j] : j \in 1..Len(template)} : sp.name = name
Dropped == \E j \in 1..Len(template) : ~Emitted(template[j].name)
PostComments == Get(call.post_data, "comments", <<>>)

\* the narration of a segment spec is empty whatever the random generator picks
NarrationEmpty(sp) ==
  \A r \in 0..(RngMod - 1) :
    _generate_narration(options, sp.content_type, call.post_data,
                        call.format_type, call.narration_style, r).text = <<>>

\* C1: the segments of a script form a contiguous timeline: the first starts
\* at 0, each later one starts where the previously emitted one ended, no
\* segment ends before it starts, and the returned total_duration is the end
\* of the last emitted segment.
C1_ContiguousTimeline ==
  /\ Segs # <<>> => Segs[1].start_time = 0
  /\ \A i \in 2..Len(Segs) : Segs[i].start_time = Segs[i - 1].end_time
  /\ \A i \in 1..Len(Segs) : Segs[i].end_time >= Segs[i].start_time
  /\ (pc = "returned" /\ Segs # <<>>) =>
        /\ result[1].segments = Segs
        /\ result[1].total_duration = Segs[Len(Segs)].end_time

C1_Witness ==
  /\ pc = "returned"
  /\ Dropped
  /\ Len(Segs) >= 3
  /\ \E i \in 1..Len(Segs) : Segs[i].duration > Sec(SpecOf(Segs[i].name).duration)

\* C2: in a returned script every required segment spec of the template has
\* its segment, empty narration or not, and no optional spec whose narration
\* is empty has one.
C2_RequiredKeptOptionalDropped ==
  pc = "returned" =>
    \A j \in 1..Len(template) :
      /\ template[j].required => Emitted(template[j].name)
      /\ (~template[j].required /\ NarrationEmpty(template[j]))
            => ~Emitted(template[j].name)

C2_Witness ==
  /\ pc = "returned"
  /\ \E i \in 1..Len(Segs) : Segs[i].required /\ Segs[i].narration = <<>>
  /\ \E j \in 1..Len(template) :
       ~template[j].required /\ NarrationEmpty(template[j])
         /\ ~Emitted(template[j].name)

LacksRequiredField(post_data) ==
  \E f \in {"title", "body", "subreddit", "author"} : f \notin DOMAIN post_data

\* C3: a call on a post record lacking title, body, subreddit or author
\* raises InvalidPostDataError with no template looked up, no segment
\* generated, no random phrase drawn and nothing returned.
C3_InvalidPostFailsFirst ==
  (LacksRequiredField(call.post_data) /\ pc \notin {"idle", "validate"}) =>
     /\ pc = "raised"
     /\ error = "InvalidPostDataError"
     /\ template = <<>>
     /\ script = EmptyScript
     /\ rng = call.rng0
     /\ result = <<>>

C3_Witness ==
  /\ pc = "raised"
  /\ LacksRequiredField(call.post_data)
  /\ ResolvedTemplateName(call) \notin TEMPLATES

ScriptGeneratorErrors ==
  {"ScriptGeneratorError", "InvalidFormatError", "InvalidPostDataError",
   "TemplateNotFoundError"}

\* C4: a request for a template or format name that is not in the catalog
\* fails with an error of the script generator's own taxonomy.
C4_UnknownTemplateError ==
  (pc = "raised" /\ ~LacksRequiredField(call.post_data)
     /\ ResolvedTemplateName(call) \notin TEMPLATES)
    => error \in ScriptGeneratorErrors

\* C5 as stated: with an empty comments list no returned script has a
\* segment of content type comments.
C5_NoCommentsSegment ==
  (pc = "returned" /\ PostComments = <<>>) =>
     \A i \in 1..Len(Segs) : Segs[i].type # "comments"

\* C5 amended: with an empty comments list the comments spec yields no
\* segment where the template marks it optional, and a segment with empty
\* narration and the spec's nominal duration where the template marks it
\* required.
C5_CommentsSegmentByRequired ==
  (pc = "returned" /\ PostComments = <<>>) =>
     \A j \in 1..Len(template) :
       template[j].content_type = "comments" =>
         IF template[j].required
         THEN \E i \in 1..Len(Segs) :
                /\ Segs[i].name = template[j].name
                /\ Segs[i].narration = <<>>
                /\ Segs[i].duration = Sec(template[j].duration)
         ELSE ~Emitted(template[j].name)

C5_Witness ==
  /\ pc = "returned"
  /\ PostComments = <<>>
  /\ \E i \in 1..Len(Segs) : Segs[i].type = "comments" /\ Segs[i].narration = <<>>

\* C6: every segment with non-empty narration lasts at least the nominal
\* duration of its template spec.
C6_DurationAtLeastNominal ==
  \A i \in 1..Len(Segs) :
    Segs[i].narration # <<>> =>
      Segs[i].duration >= Sec(SpecOf(Segs[i].name).duration)

C6_Witness ==
  /\ \E i \in 1..Len(Segs) :
       /\ Segs[i].narration # <<>>
       /\ Segs[i].duration > Sec(SpecOf(Segs[i].name).duration)
  /\ \E i \in 1..Len(Segs) :
       /\ Segs[i].narration # <<>>
       /\ Segs[i].duration = Sec(SpecOf(Segs[i].name).duration)

RECURSIVE IsSubsequence(_, _)
IsSubsequence(a, b) ==
  IF a = <<>> THEN TRUE
  ELSE IF b = <<>> THEN FALSE
  ELSE IF Head(a) = Head(b) THEN IsSubsequence(Tail(a), Tail(b))
  ELSE IsSubsequence(a, Tail(b))

WithoutTimestamp(scr) ==
  [scr EXCEPT !.metadata = << [@[1] EXCEPT !.generated_at = 0] >>]

\* C7 as stated: a call repeated with the same arguments after re-seeding
\* the random generator returns a script equal in every field.
C7_RepeatIdentical ==
  (pc = "returned" /\ prev # <<>>) => result = prev

\* C7 amended: a call repeated with the same arguments after re-seeding the
\* random generator returns a script equal in every field except
\* metadata.generated_at, which is the clock reading of each call.
C7_RepeatIdenticalButTimestamp ==
  (pc = "returned" /\ prev # <<>>) =>
     WithoutTimestamp(result[1]) = WithoutTimestamp(prev[1])

C7_Witness ==
  /\ pc = "returned"
  /\ prev # <<>>
  /\ result[1].metadata[1].generated_at # prev[1].metadata[1].generated_at
  /\ \E i \in 1..Len(Segs) : Segs[i].type = "intro"
  /\ \E i \in 1..Len(Segs) : Segs[i].type = "comments" /\ Segs[i].narration # <<>>

LastOf(seq) == seq[Len(seq)]

\* C9: when the final segment of a script has at least one sentence, the
\* last subtitle entry ends at the script's total_duration.
C9_LastSubtitleEndsAtTotal ==
  (subtitles # <<>> /\ result[1].segments # <<>>
     /\ Sentences(LastOf(result[1].segments).narration) # <<>>)
    => LastOf(subtitles[1]).end = result[1].total_duration

Medium7 == <<"intro", "title", "context", "body", "comments", "engagement", "outro">>
Medium6NoEngagement == <<"intro", "title", "context", "body", "comments", "outro">>
Medium6NoContext == <<"intro", "title", "body", "comments", "engagement", "outro">>

MediumCasualCall ==
  /\ pc = "returned"
  /\ call.format_type = "medium"
  /\ call.template_name = "None"
  /\ call.narration_style = "casual"
  /\ call.post_data["body"] # <<>>
  /\ \E i \in 1..Len(PostComments) : PostComments[i].score >= 50

TemplateNames == [j \in 1..Len(template) |-> template[j].name]

\* C10 as stated: medium/casual on a post with a body and a qualifying
\* comment yields intro, title, context, body, comments, optionally
\* engagement, outro; and the emitted segments always are an order-preserving
\* subsequence of the template's specs.
C10_MediumSegmentNames ==
  /\ MediumCasualCall => SegNames(Segs) \in {Medium7, Medium6NoEngagement}
  /\ IsSubsequence(SegNames(Segs), TemplateNames)

\* the context narration has no part: usernames are hidden and the score is
\* hidden or zero
ContextHidden ==
  /\ ~options.show_usernames
  /\ ~options.show_scores \/ Get(call.post_data, "score", 0) = 0

\* C10 amended: medium/casual on a post with a body and a qualifying comment
\* yields the seven segments intro, title, context, body, comments,
\* engagement, outro, or the six without context when the generator hides
\* usernames and hides the score or the score is zero; engagement is always
\* present; and the emitted segments always are an order-preserving
\* subsequence of the template's specs.
C10_MediumSegmentNamesByOptions ==
  /\ MediumCasualCall =>
       SegNames(Segs) = IF ContextHidden THEN Medium6NoContext ELSE Medium7
  /\ IsSubsequence(SegNames(Segs), TemplateNames)

C10_Witness ==
  /\ MediumCasualCall
  /\ ContextHidden
  /\ Len(Segs) = 6

Doc == loaded[1]
DocSegments == Lookup(Doc, "segments")

\* C8: the JSON export parsed back has the script's segments, as many and in
\* the same order, with the same narration strings, and the same
\* total_duration.
C8_JsonRoundTrip ==
  loaded # <<>> =>
    /\ DocSegments.t = "arr"
    /\ Len(DocSegments.v) = Len(result[1].segments)
    /\ \A i \in 1..Len(result[1].segments) :
         /\ Lookup(DocSegments.v[i], "name") = JStr(Chars(result[1].segments[i].name))
         /\ Lookup(DocSegments.v[i], "narration") = JStr(result[1].segments[i].narration)
    /\ Lookup(Doc, "total_duration") = JFloat(result[1].total_duration)

C8_Witness ==
  /\ loaded # <<>>
  /\ \E i \in 1..Len(result[1].segments) :
       HasChar(result[1].segments[i].narration, "\"")
  /\ \E i \in 1..Len(result[1].segments) :
       HasChar(result[1].segments[i].narration, "\n")
  /\ \E i \in 1..Len(result[1].segments) :
       HasChar(result[1].segments[i].narration, "\\")
  /\ result[1].total_duration % TicksPerSec # 0

\* C11: the narration of a title segment is "Listen to this: " followed by
\* the post title for the dramatic style, "Get this: " followed by the title
\* for the comedic style, and the title itself for every other style.
C11_TitlePrefixByStyle ==
  \A i \in 1..Len(Segs) :
    Segs[i].type = "title" =>
      Segs[i].narration =
        (CASE call.narration_style = "dramatic" -> Chars("Listen to this: ")
           [] call.narration_style = "comedic" -> Chars("Get this: ")
           [] OTHER -> <<>>) \o call.post_data["title"]

C11_Witness ==
  /\ pc = "returned"
  /\ call.narration_style = "comedic"
  /\ \E i \in 1..Len(Segs) :
       /\ Segs[i].type = "title"
       /\ SubSeq(Segs[i].narration, 1, 10) = Chars("Get this: ")

\* the time t in whole milliseconds, truncated
Millis(t) == (t \div TicksPerSec) * 1000 + ((t % TicksPerSec) * 1000) \div TicksPerSec

AllDigits(x) == \A i \in 1..Len(x) : x[i] \in Digits

\* stamp reads HH:MM:SS,mmm with minutes and seconds in 0..59, and its four
\* fields add up to the time t truncated to whole milliseconds
ExactStamp(stamp, t) ==
  LET hh == SubSeq(stamp, 1, 2)
      mm == SubSeq(stamp, 4, 5)
      ss == SubSeq(stamp, 7, 8)
      mmm == SubSeq(stamp, 10, 12)
  IN /\ Len(stamp) = 12
     /\ stamp[3] = ":" /\ stamp[6] = ":" /\ stamp[9] = ","
     /\ AllDigits(hh) /\ AllDigits(mm) /\ AllDigits(ss) /\ AllDigits(mmm)
     /\ NatValue(mm) \in 0..59
     /\ NatValue(ss) \in 0..59
     /\ NatValue(mmm) \in 0..999
     /\ NatValue(hh) * 3600000 + NatValue(mm) * 60000 + NatValue(ss) * 1000
          + NatValue(mmm) = Millis(t)

\* C12: the SRT export numbers its entries 1, 2, 3, ... in subtitle order,
\* and both timestamps of every entry are exact decompositions of the
\* entry's start and end truncated to whole milliseconds.
C12_SrtNumberedExactStamps ==
  srt_file # <<>> =>
    LET writes == srt_file[1]
        subs == _generate_subtitles(result[1])
    IN /\ Len(writes) = 3 * Len(subs)
       /\ \A i \in 1..Len(subs) :
            LET stamps == writes[3 * i - 1]
            IN /\ writes[3 * i - 2] = IntToChars(i) \o <<"\n">>
               /\ Len(stamps) = 30
               /\ SubSeq(stamps, 13, 17) = Chars(" --> ")
               /\ ExactStamp(SubSeq(stamps, 1, 12), subs[i].start)
               /\ ExactStamp(SubSeq(stamps, 18, 29), subs[i].end)

\* the timing line of an SRT entry with both millisecond separators turned
\* into the WebVTT ones
WithDots(line) ==
  [k \in 1..Len(line) |-> IF k \in {9, 26} /\ line[k] = "," THEN "." ELSE line[k]]

\* C13: the SRT and WebVTT exports of one script hold the same entries in
\* the same order with the same start, end and text: the WebVTT file is the
\* line WEBVTT and a blank line followed by the SRT entries without their
\* sequence numbers and with "." for "," before the milliseconds.
C13_SrtVttSameEntries ==
  (srt_file # <<>> /\ vtt_file # <<>>) =>
    LET srt == srt_file[1]
        vtt == vtt_file[1]
        n == Len(srt) \div 3
    IN /\ Len(srt) = 3 * n
       /\ Len(vtt) = 2 * n + 1
       /\ vtt[1] = Chars("WEBVTT") \o <<"\n", "\n">>
       /\ \A i \in 1..n :
            /\ srt[3 * i - 2] = IntToChars(i) \o <<"\n">>
            /\ srt[3 * i - 1][9] = "," /\ srt[3 * i - 1][26] = ","
            /\ vtt[2 * i] = WithDots(srt[3 * i - 1])
            /\ vtt[2 * i + 1] = srt[3 * i]

C13_Witness ==
  /\ srt_file # <<>>
  /\ vtt_file # <<>>
  /\ Len(srt_file[1]) >= 6
  /\ \E i \in 1..(Len(srt_file[1]) \div 3) :
       /\ HasChar(SubSeq(srt_file[1][3 * i], 1, Len(srt_file[1][3 * i]) - 2), "\n")
       /\ SubSeq(srt_file[1][3 * i - 1], 10, 12) # Chars("000")

\* generate_script run as one function on a generator with the options opts,
\* from the random generator's state r: the segments of the loop over specs
\* that starts at start_time
RECURSIVE FreshSegments(_, _, _, _, _)
FreshSegments(opts, c, specs, start_time, r) ==
  IF specs = <<>> THEN <<>>
  ELSE LET g == _generate_segment(opts, Head(specs), c.post_data, start_time,
                                  c.format_type, c.narration_style, r)
       IN g.segment
            \o FreshSegments(opts, c, Tail(specs),
                             IF g.segment # <<>> THEN g.segment[1].end_time
                             ELSE start_time,
                             g.rng)

\* the script such a call returns when the clock reads timestamp
FreshScript(opts, c, r, timestamp) ==
  LET template_name == ResolvedTemplateName(c)
      segments == FreshSegments(opts, c, get_template(template_name).segments, 0, r)
  IN [metadata |-> << _generate_metadata(c.post_data, c.format_type,
                                          template_name, timestamp) >>,
      segments |-> segments,
      total_duration |-> IF segments = <<>> THEN 0 ELSE LastOf(segments).end_time,
      word_count |-> SumWords(segments),
      narration_style |-> c.narration_style]

\* C14: no step of a generate_script call changes the generator's options
\* (words_per_minute among them) or the post record it was given, and the
\* script a call returns, whatever calls the generator served before, is one
\* of the scripts the same call returns on a generator just constructed with
\* these options.
C14_CallsIndependent ==
  /\ [][/\ options' = options
        /\ (pc # "idle" /\ pc' # "idle") => call'.post_data = call.post_data]_vars
  /\ [](pc = "returned" =>
          result[1] \in {FreshScript(options, call, r, t) :
                           r \in 0..(RngMod - 1), t \in 0..MaxClock})

C14_Witness ==
  /\ pc = "returned"
  /\ prev # <<>>
  /\ rng # call.rng0
  /\ now > 0
  /\ options.words_per_minute # 150
  /\ Len(Segs) >= 5

\* a call by one of the listed template names has run through its last step
Completed ==
  /\ pc = "returned"
  /\ error = ""
  /\ result = << script >>
  /\ SegNames(result[1].segments) # <<>>
  /\ result[1].metadata[1].template = call.template_name

\* C15: generate_script(post, template_name=name), for every name that
\* list_templates returns and every post record with the required fields,
\* raises no error, and once its loop over the template's segment specs is
\* over it has returned a script.
C15_ListedTemplatesSucceed ==
  (pc # "idle" /\ ~LacksRequiredField(call.post_data)
     /\ \E k \in 1..Len(list_templates) : call.template_name = list_templates[k])
    => /\ pc # "raised"
       /\ error = ""
       /\ (pc \notin {"validate", "get_template", "segments"}) => Completed

C15_Witness ==
  /\ Completed
  /\ call.template_name = "compilation"
  /\ call.format_type = "medium"
  /\ \E i \in 1..Len(Segs) : Segs[i].type = "post_block" /\ Segs[i].narration = <<>>

\* word_count / words_per_minute * 60 + pause_duration for the words of text
SpokenTime(text) ==
  FAdd(FMul(IntDiv(Len(Split(text)), options.words_per_minute), 60),
       options.pause_duration)

\* C16: the duration of a segment is the larger of its spec's nominal
\* duration and word_count / words_per_minute * 60 + pause_duration when its
\* narration is not empty, and the nominal duration itself, no pause added,
\* when its narration is empty.
C16_DurationFormula ==
  \A i \in 1..Len(Segs) :
    LET nominal == Sec(SpecOf(Segs[i].name).duration)
    IN Segs[i].duration =
         IF Segs[i].narration = <<>> THEN nominal
         ELSE Max(nominal, SpokenTime(Segs[i].narration))

C16_Witness ==
  /\ options.pause_duration > 0
  /\ \E i \in 1..Len(Segs) :
       Segs[i].narration = <<>> /\ Segs[i].duration = Sec(SpecOf(Segs[i].name).duration)
  /\ \E i \in 1..Len(Segs) :
       /\ Segs[i].duration > Sec(SpecOf(Segs[i].name).duration)
       /\ Segs[i].duration = SpokenTime(Segs[i].narration)
  /\ \E i \in 1..Len(Segs) :
       /\ Segs[i].narration # <<>>
       /\ SpokenTime(Segs[i].narration) < Segs[i].duration

\* the number of sentences in the segments before the i-th
RECURSIVE SentencesBefore(_, _)
SentencesBefore(segments, i) ==
  IF i = 1 THEN 0
  ELSE SentencesBefore(segments, i - 1) + Len(Sentences(segments[i - 1].narration))

\* C17: a segment whose narration has k >= 1 sentences gets exactly k
\* subtitle entries, one per sentence in sentence order; the first starts at
\* the segment's start_time, every entry ends duration / k after it starts,
\* and every later one starts where the one before it ended.
C17_OneEntryPerSentence ==
  subtitles # <<>> =>
    LET segments == result[1].segments
        subs == subtitles[1]
    IN /\ Len(subs) = SentencesBefore(segments, Len(segments) + 1)
       /\ \A i \in 1..Len(segments) :
            LET sentences == Sentences(segments[i].narration)
                k == Len(sentences)
                first == SentencesBefore(segments, i) + 1
            IN k >= 1 =>
                 /\ subs[first].start = segments[i].start_time
                 /\ \A m \in 1..k :
                      LET entry == subs[first + m - 1]
                      IN /\ Split(entry.text) = Split(sentences[m])
                         /\ entry.end = FAdd(entry.start, FDiv(segments[i].duration, k))
                         /\ m > 1 => entry.start = subs[first + m - 2].end

C17_Witness ==
  /\ subtitles # <<>>
  /\ \E i \in 1..Len(result[1].segments) :
       LET segment == result[1].segments[i]
           k == Len(Sentences(segment.narration))
       IN /\ k >= 3
          /\ segment.start_time > 0
          /\ k * FDiv(segment.duration, k) # segment.duration
  /\ \E i \in 1..Len(result[1].segments) :
       Len(Sentences(result[1].segments[i].narration)) = 1

\* no line of text (the lines being separated by newlines) is longer than
\* width: every width + 1 successive characters hold a newline
LinesFit(text, width) ==
  \A p \in 1..(Len(text) - width) : \E q \in p..(p + width) : text[q] = "\n"

\* C18: the subtitle text of every sentence longer than max_chars_per_line
\* (42) has no line longer than max_chars_per_line, and its lines hold the
\* words of the sentence unbroken and in order.
C18_WrappedLinesFit ==
  subtitles # <<>> =>
    LET segments == result[1].segments
        subs == subtitles[1]
    IN \A i \in 1..Len(segments) :
         LET sentences == Sentences(segments[i].narration)
         IN \A m \in 1..Len(sentences) :
              LET text == subs[SentencesBefore(segments, i) + m].text
              IN Len(sentences[m]) > DefaultMaxCharsPerLine =>
                   /\ LinesFit(text, DefaultMaxCharsPerLine)
                   /\ Split(text) = Split(sentences[m])

\* the word budget of the body for the three formats
Budget == [short |-> 50, medium |-> 150, long |-> 500]

\* text is the words joined by single spaces and followed by "..."
JoinedWithEllipsis(text, words) ==
  LET joined == SubSeq(text, 1, Len(text) - 3)
  IN /\ Len(text) >= 3
     /\ SubSeq(text, Len(text) - 2, Len(text)) = Chars("...")
     /\ Split(joined) = words
     /\ ~HasChar(joined, "\n")
     /\ Len(joined) = Cardinality({p \in 1..Len(joined) : joined[p] # " "})
                        + Len(words) - 1

\* C19: the narration of a body segment is the body unchanged when the
\* body has at most B words, and otherwise its first B words joined by
\* single spaces and followed by "...", with B = 50, 150, 500 for the
\* formats short, medium, long; the narration of an empty body is empty.
C19_BodyWordBudget ==
  \A i \in 1..Len(Segs) :
    (Segs[i].type = "post_body" /\ call.format_type \in DOMAIN Budget) =>
      LET body == call.post_data["body"]
          words == Split(body)
          B == Budget[call.format_type]
      IN IF Len(words) <= B THEN Segs[i].narration = body
         ELSE JoinedWithEllipsis(Segs[i].narration, SubSeq(words, 1, B))

C19_Witness ==
  /\ pc = "returned"
  /\ call.format_type = "long"
  /\ Len(Split(call.post_data["body"])) = 501
  /\ \E i \in 1..Len(Segs) :
       /\ Segs[i].type = "post_body"
       /\ Len(Split(Segs[i].narration)) = 500
       /\ Segs[i].narration # SubSeq(call.post_data["body"], 1, Len(Segs[i].narration))

\* the number of comments selected and their minimum score, by format
Selection ==
  [short |-> [N |-> 1, min |-> 100], medium |-> [N |-> 3, min |-> 50],
   long |-> [N |-> 10, min |-> 10]]

\* the first N of the comments with a score of min or more, in input order
FirstQualifying(comments, N, min) ==
  LET qualifying == SelectSeq(comments, LAMBDA c : c.score >= min)
  IN SubSeq(qualifying, 1, IF Len(qualifying) < N THEN Len(qualifying) ELSE N)

\* C20: the narration of a comments segment is a transition phrase followed
\* by exactly the first N comments, in input order, whose score is at least
\* the minimum of the format (short 1 and 100, medium 3 and 50, long 10 and
\* 10); it is empty when no comment qualifies.
C20_FirstQualifyingComments ==
  \A i \in 1..Len(Segs) :
    (Segs[i].type = "comments" /\ call.format_type \in DOMAIN Selection) =>
      LET sel == Selection[call.format_type]
          chosen == FirstQualifying(PostComments, sel.N, sel.min)
          said == [k \in 1..Len(chosen) |->
                     CommentText(options, chosen[k], call.format_type)]
      IN IF chosen = <<>> THEN Segs[i].narration = <<>>
         ELSE \E t \in 1..Len(TRANSITION_TO_COMMENTS) :
                Segs[i].narration =
                  Join(Chars(". "), << TRANSITION_TO_COMMENTS[t] >> \o said)
                    \o Chars(".")

C20_Witness ==
  /\ pc = "returned"
  /\ call.format_type = "long"
  /\ Len(SelectSeq(PostComments, LAMBDA c : c.score >= 10)) > 10
  /\ \E k \in 1..Len(PostComments) : PostComments[k].score < 10
  /\ \E i \in 1..Len(Segs) :
       Segs[i].type = "comments" /\ Segs[i].narration # <<>>

\* the body of a comment as the narration says it under a limit of L characters
SpokenBody(body, L) ==
  IF Len(body) <= L THEN body ELSE SubSeq(body, 1, L) \o Chars("...")

\* what the narration says of one comment whose body is said as spoken
SpokenComment(comment, spoken) ==
  (IF options.show_usernames THEN Chars("u/") \o comment.author \o Chars(" said: ")
   ELSE Chars("One person said: "))
    \o spoken
    \o (IF options.show_scores /\ comment.score > 50
        THEN Chars(". This got ") \o IntToChars(comment.score) \o Chars(" upvotes")
        ELSE <<>>)

\* C21: in the narration of a comments segment the body of each selected
\* comment is said in full when it has at most L characters and is otherwise
\* cut to its first L characters followed by "...", L being 200 in the long
\* format and 100 in every other format.
C21_CommentBodyCut ==
  \A i \in 1..Len(Segs) :
    (Segs[i].type = "comments" /\ call.format_type \in DOMAIN Selection) =>
      LET sel == Selection[call.format_type]
          L == IF call.format_type = "long" THEN 200 ELSE 100
          chosen == FirstQualifying(PostComments, sel.N, sel.min)
          said == [k \in 1..Len(chosen) |->
                     SpokenComment(chosen[k], SpokenBody(chosen[k].body, L))]
      IN chosen # <<>> =>
           \E t \in 1..Len(TRANSITION_TO_COMMENTS) :
             Segs[i].narration =
               Join(Chars(". "), << TRANSITION_TO_COMMENTS[t] >> \o said)
                 \o Chars(".")

\* a long script says a comment of more than 100 characters in full and cuts
\* another one of more than 200
C21_Witness ==
  /\ pc = "returned"
  /\ call.format_type = "long"
  /\ \E i \in 1..Len(Segs) : Segs[i].type = "comments" /\ Segs[i].narration # <<>>
  /\ \E k \in 1..Len(PostComments) : Len(PostComments[k].body) = 201
  /\ \E k \in 1..Len(PostComments) : Len(PostComments[k].body) = 200

\* a text of terminal punctuation and nothing else
OnlyPunctuation(text) ==
  text # <<>> /\ \A k \in 1..Len(text) : text[k] \in {".", "!", "?"}

\* a sequence without its i-th element
Without(seq, i) == SubSeq(seq, 1, i - 1) \o SubSeq(seq, i + 1, Len(seq))

\* C22: a segment whose narration is only terminal punctuation yields no
\* subtitle entry (none starts within the segment), the subtitles are
\* produced without an error, and the entries are those of the script
\* without that segment: the count, text and timing of the entries of the
\* other segments are unchanged.
C22_PunctuationOnlySegment ==
  (pc = "returned" /\ subtitles # <<>>) =>
    \A i \in 1..Len(result[1].segments) :
      LET segment == result[1].segments[i]
      IN OnlyPunctuation(segment.narration) =>
           /\ \A k \in 1..Len(subtitles[1]) :
                ~(segment.start_time <= subtitles[1][k].start
                    /\ subtitles[1][k].start < segment.end_time)
           /\ subtitles[1] =
                _generate_subtitles(
                  [result[1] EXCEPT !.segments = Without(result[1].segments, i)])

\* subtitles were produced from a script with a punctuation-only segment
\* between two segments that have entries
C22_Witness ==
  /\ pc = "returned"
  /\ subtitles # <<>>
  /\ \E i \in 2..(Len(result[1].segments) - 1) :
       /\ OnlyPunctuation(result[1].segments[i].narration)
       /\ \E k \in 1..Len(subtitles[1]) :
            subtitles[1][k].start < result[1].segments[i].start_time
       /\ \E k \in 1..Len(subtitles[1]) :
            subtitles[1][k].start >= result[1].segments[i].end_time

\* the identifiers of a list of comments
Ids(comments) == [k \in 1..Len(comments) |-> comments[k].id]

\* the first n elements of seq, all of them when there are fewer
FirstN(seq, n) == SubSeq(seq, 1, IF Len(seq) < n THEN Len(seq) ELSE n)

\* C24: the fetched comments are the first max_comments of the up to
\* 3 x max_comments candidate comments that have a body and a score of
\* min_comment_score or more: the score filter comes before the count limit.
C24_FilterBeforeLimit ==
  fetched # <<>> =>
    LET opts == fetcher_options[1]
        candidates == FirstN(submission[1].comments, 3 * opts.max_comments)
        qualifying ==
          SelectSeq(candidates,
            LAMBDA c : "body" \in DOMAIN c /\ c.score >= opts.min_comment_score)
    IN Ids(fetched[1].comments) = Ids(FirstN(qualifying, opts.max_comments))

\* this step is a call of export_script
ExportCalled == export_format' # "" /\ export_format' # export_format

\* C25: export_script with a format other than json, txt, srt and vtt raises
\* ValueError, writes no file and leaves the script unchanged; with one of
\* the four formats it raises nothing.
C25_UnknownExportFormat ==
  [][ExportCalled =>
        IF export_format' \in {"json", "txt", "srt", "vtt"}
        THEN export_error' = ""
        ELSE /\ export_error' = "ValueError"
             /\ UNCHANGED <<file, txt_file, srt_file, vtt_file, result, script>>]_vars

\* a call with an unknown format has raised after two exports were written
C25_Witness ==
  /\ export_error = "ValueError"
  /\ export_format \in {"JSON", "xml", "text"}
  /\ file # <<>>
  /\ txt_file # <<>>
  /\ pc = "returned"

\* this step is a direct generate_audio call on a generator that caches
CachingCall ==
  /\ tts # <<>>
  /\ tts[1].cache_audio
  /\ audio' # <<>>
  /\ audio' # audio \/ disk' # disk \/ tts_error' # tts_error

\* the cache file of the call that this step makes
CallKey == _get_cache_path(tts[1], audio'[1].text, audio'[1].segment_name)

\* the files in the cache directory
CacheEntries(files) == {f \in files : f.dir = "./tts_cache"}

\* C27: with caching enabled, a generate_audio call that invoked the provider
\* and succeeded leaves a cache entry for its (provider, segment name, text)
\* key; a call whose key has an entry returns the path of that entry and
\* does not invoke the provider; a call that fails adds no cache entry; and
\* no entry is ever removed.
C27_CacheAfterSuccess ==
  [][CachingCall =>
       /\ (tts_error' = "" /\ audio'[1].invoked) => CallKey \in disk'
       /\ CallKey \in disk =>
            /\ tts_error' = ""
            /\ audio'[1].path = << CallKey >>
            /\ ~audio'[1].invoked
       /\ tts_error' # "" => CacheEntries(disk') = CacheEntries(disk)
       /\ CacheEntries(disk) \subseteq CacheEntries(disk')]_vars

\* a call was answered from the cache, which holds two entries
C27_Witness ==
  /\ tts # <<>>
  /\ tts[1].cache_audio
  /\ audio # <<>>
  /\ tts_error = ""
  /\ ~audio[1].invoked
  /\ audio[1].path = << _get_cache_path(tts[1], audio[1].text, audio[1].segment_name) >>
  /\ Cardinality(CacheEntries(disk)) = 2

\* the numbers of the segments of the returned script with a narration that
\* is not blank, and of those the log reports as failed
Spoken ==
  {i \in 1..Len(result[1].segments) : Strip(result[1].segments[i].narration) # <<>>}
FailedSegments == {tts_log[k][1] : k \in {j \in 1..Len(tts_log) : tts_log[j][2] = "Failed"}}

\* the audio list and the log are those of a complete run over the script:
\* generation was attempted once for every spoken segment, in order, and the
\* list holds the spoken segments that did not fail, in order
CompleteRun ==
  LET done == audio_files[1]
  IN /\ tts_error = ""
     /\ Len(tts_log) = Cardinality(Spoken)
     /\ {tts_log[k][1] : k \in 1..Len(tts_log)} = Spoken
     /\ \A j, k \in 1..Len(tts_log) : j < k => tts_log[j][1] < tts_log[k][1]
     /\ {done[k].segment_number : k \in 1..Len(done)} = Spoken \ FailedSegments
     /\ Len(done) = Cardinality(Spoken \ FailedSegments)
     /\ \A j, k \in 1..Len(done) :
          j < k => done[j].segment_number < done[k].segment_number
     /\ \A k \in 1..Len(done) :
          LET segment == result[1].segments[done[k].segment_number]
          IN /\ done[k].segment_name = segment.name
             /\ done[k].text = Strip(segment.narration)

\* C26: generate_from_script returns, in script order, exactly the segments
\* with a narration that is not blank and whose audio generation succeeded;
\* a failure on a segment neither ends the loop nor raises out of the call.
C26_AudioForSpokenSegments ==
  [][(audio_files' # audio_files \/ tts_log' # tts_log) => CompleteRun']_vars

\* a run skipped a blank narration, took the audio of a segment from the
\* cache, failed on a segment and generated audio for a later one
C26_Witness ==
  /\ pc = "returned"
  /\ audio_files # <<>>
  /\ \E k \in 1..Len(audio_files[1]) : audio_files[1][k].audio_path.dir = "./tts_cache"
  /\ Spoken # 1..Len(result[1].segments)
  /\ \E j, k \in 1..Len(tts_log) :
       j < k /\ tts_log[j][2] = "Failed" /\ tts_log[k][2] = "Generated"
  /\ CompleteRun

\* the names of a list of segments or segment specs are pairwise distinct
DistinctNames(segments) ==
  \A i, j \in 1..Len(segments) : segments[i].name = segments[j].name => i = j

\* every segment of the video that was given an audio entry was given the one
\* generated from its own narration, and every audio entry was given to its
\* segment
PairedWithOwnAudio ==
  /\ \A i \in 1..Len(clips[1]) :
       clips[1][i].audio_info # <<>> =>
         /\ clips[1][i].audio_info[1].segment_number = i
         /\ clips[1][i].audio_info[1].text = Strip(result[1].segments[i].narration)
  /\ \A k \in 1..Len(audio_files[1]) :
       clips[1][audio_files[1][k].segment_number].audio_info
         = << audio_files[1][k] >>

\* C28: the segment names of every catalog template are pairwise distinct,
\* and compose_video, which finds a segment's audio by the segment's name,
\* gives every segment its own audio entry and no other segment's.
C28_AudioPairedByName ==
  /\ \A k \in 1..Len(list_templates) :
       DistinctNames(get_template(list_templates[k]).segments)
  /\ [][clips' # clips => PairedWithOwnAudio']_vars

\* a video of a compilation script was rendered, two of its segments with
\* their audio and one without
C28_Witness ==
  /\ clips # <<>>
  /\ call.template_name = "compilation"
  /\ Cardinality({i \in 1..Len(clips[1]) : clips[1][i].has_audio}) = 2
  /\ \E i \in 1..Len(clips[1]) : clips[1][i].audio_info = <<>>

\* the lines of a text, the empty ones included
RECURSIVE LinesOf(_)
LinesOf(text) ==
  LET breaks == {p \in 1..Len(text) : text[p] = "\n"}
  IN IF breaks = {} THEN << text >>
     ELSE << SubSeq(text, 1, MinOf(breaks) - 1) >>
            \o LinesOf(SubSeq(text, MinOf(breaks) + 1, Len(text)))

\* the words of the lines, read from the first line to the last
RECURSIVE WordsOfLines(_)
WordsOfLines(lines) ==
  IF lines = <<>> THEN <<>> ELSE Split(Head(lines)) \o WordsOfLines(Tail(lines))

\* the texts of the subtitle entries of the sentences longer than the limit,
\* each with its sentence
WrappedSentences ==
  LET segments == result[1].segments
      subs == subtitles[1]
  IN UNION {{[sentence |-> Sentences(segments[i].narration)[m],
              text |-> subs[SentencesBefore(segments, i) + m].text] :
               m \in {n \in 1..Len(Sentences(segments[i].narration)) :
                        Len(Sentences(segments[i].narration)[n])
                          > DefaultMaxCharsPerLine}} :
            i \in 1..Len(segments)}

\* C29: for every sentence longer than the limit, the words of the produced
\* lines, read from the first line to the last, are exactly the words of the
\* sentence in their order.
C29_WrappingLossless ==
  subtitles # <<>> =>
    \A w \in WrappedSentences :
      WordsOfLines(LinesOf(w.text)) = Split(w.sentence)

\* a sentence of more than two words was wrapped into three lines
C29_Witness ==
  /\ subtitles # <<>>
  /\ \E w \in WrappedSentences :
       /\ Len(LinesOf(w.text)) >= 3
       /\ Len(Split(w.sentence)) > 3

\* C30: every line of a wrapped sentence holds at least one word, also when
\* the first word of the sentence is as long as the limit or longer.
C30_NoEmptyLine ==
  subtitles # <<>> =>
    \A w \in WrappedSentences :
      \A k \in 1..Len(LinesOf(w.text)) : Split(LinesOf(w.text)[k]) # <<>>

\* the first n steps of process_post
FirstSteps(n) == SubSeq(PipelineSteps, 1, n)

\* what the steps after the n-th leave behind is not there
NothingAfter(n) ==
  /\ n < 2 => result = <<>> /\ pc = "idle"
  /\ n < 3 => \A f \in disk : "suffix" \notin DOMAIN f
  /\ n < 4 => audio_files = <<>> /\ tts_log = <<>>
  /\ n < 5 => \A f \in disk : "suffix" \in DOMAIN f => f.suffix # "_audio_manifest"
  /\ n < 6 => clips = <<>>
                /\ \A f \in disk : "suffix" \in DOMAIN f => f.extension # "mp4"
  /\ n < 7 => \A f \in disk : "suffix" \in DOMAIN f => f.suffix # "_thumbnail"

\* the steps that have run are the first steps, in order, and a failed call
\* carries the pipeline's error and nothing of a later step
StepsInOrder ==
  /\ steps = FirstSteps(Len(steps))
  /\ pp \notin {"idle", "returned", "raised"} =>
       \/ pp = PipelineSteps[Len(steps) + 1]
       \/ pp = "generating script" /\ Len(steps) = 2
  /\ pp = "returned" => steps = PipelineSteps
  /\ pp = "raised" =>
       /\ pp_error = "RedditToVideoError"
       /\ NothingAfter(Len(steps))

\* C23: process_post runs fetch post, generate script, save script,
\* generate audio, save audio manifest, compose video, generate thumbnail in
\* this order; after a step has failed no later step has run, and the
\* failure reaches the caller as RedditToVideoError.
C23_StepsInOrder ==
  /\ []StepsInOrder
  /\ [][pp = "raised" => steps' = steps]_vars

\* process_post has failed while the audio manifest was saved, after audio
\* files were generated
C23_Witness ==
  /\ pp = "raised"
  /\ Len(steps) = 5
  /\ audio_files # <<>> /\ audio_files[1] # <<>>

====
